---------------------------- MODULE Spec2Model ----------------------------
(***************************************************************************)
(* Discrete-time blocks of the control loop: the DiscreteSystem base class *)
(* (sampling period, step index, circular sample buffer, the non-virtual   *)
(* next/reset/bufferDump), and its subtypes TransferFunctionSystem,        *)
(* StateSpaceSystem, PIDController, ADConverter and DAConverter.           *)
(*                                                                         *)
(* A double is modelled by an exact rational <<num, den>> in lowest terms  *)
(* with den > 0 (rounding of binary floating point, NaN and infinities are *)
(* left out).  A std::vector is a sequence: C++ index i is index i + 1.    *)
(* The sample buffer is a function over 0 .. bufferSize_ - 1, so that      *)
(* writeIndex_ is the C++ index itself.                                    *)
(***************************************************************************)
EXTENDS Integers, Sequences, FiniteSets, TLC

VARIABLES
    sys,    \* the instance: [kind, base, derived], or NoInstance
    ctor,   \* arguments of the most recent constructor call
    op,     \* name of the most recent operation
    arg,    \* its argument (the input of next, the format of bufferDump)
    ret,    \* what it returned, wrote to the stream, or threw
    prev,   \* the instance as it was before the most recent operation
    hist,   \* <<input, output>> of each next() since construction or reset
    tunes   \* setter calls since construction

vars == <<sys, ctor, op, arg, ret, prev, hist, tunes>>

\* The members of the records below and what each holds, listed in the order
\* in which every record of the module names them.
Members ==
    [y |-> "double: the value a call returns",
     s |-> "the instance a call leaves",
     thrown |-> "the exception a constructor threw, or none",
     obj |-> "the object a constructor built, or NoInstance",
     kind |-> "the dynamic type of the instance",
     base |-> "the DiscreteSystem subobject",
     derived |-> "the members the subtype adds",
     Ts_ |-> "double", k_ |-> "int", bufferSize_ |-> "size_t",
     writeIndex_ |-> "size_t", count_ |-> "size_t", buffer_ |-> "std::vector<Sample>",
     in |-> "double", out |-> "double", k |-> "int",
     b_ |-> "std::vector<double>", a_ |-> "std::vector<double>",
     uHist_ |-> "std::vector<double>", yHist_ |-> "std::vector<double>",
     A_ |-> "std::vector<std::vector<double>>", B_ |-> "std::vector<double>",
     C_ |-> "std::vector<double>", D_ |-> "double", x_ |-> "std::vector<double>",
     n_ |-> "size_t",
     Kp_ |-> "double", Ki_ |-> "double", Kd_ |-> "double",
     a0_ |-> "double", a1_ |-> "double", a2_ |-> "double",
     e_k1_ |-> "double", e_k2_ |-> "double", u_k1_ |-> "double",
     y_k1_ |-> "double",
     b |-> "constructor argument", a |-> "constructor argument",
     A |-> "constructor argument", B |-> "constructor argument",
     C |-> "constructor argument", D |-> "constructor argument",
     Kp |-> "constructor argument", Ki |-> "constructor argument",
     Kd |-> "constructor argument", Ts |-> "constructor argument",
     bufferSize |-> "constructor argument",
     header |-> "lines written before the rows", rows |-> "the sample rows",
     colSep |-> "text between the numbers of a row",
     rowSep |-> "text that ends or separates rows",
     footer |-> "lines written after the rows",
     offset_ |-> "double", t_ |-> "double", buffer_size_ |-> "size_t",
     time_buffer_ |-> "std::deque<double>", value_buffer_ |-> "std::deque<double>",
     amplitude_ |-> "double", step_time_ |-> "double",
     slope_ |-> "double", start_time_ |-> "double",
     offset |-> "constructor argument", buffer_size |-> "constructor argument",
     amplitude |-> "constructor argument", step_time |-> "constructor argument",
     slope |-> "constructor argument", start_time |-> "constructor argument",
     pc |-> "the statement a call in progress is at",
     i |-> "size_t", j |-> "size_t", y_num |-> "double", y_den |-> "double",
     yk |-> "double", sum |-> "double", x_next |-> "std::vector<double>",
     oldestIndex |-> "size_t",
     iterations |-> "the loop bodies the call in progress has run"]

----------------------------------------------------------------------------
(* Bounds of the model *)

\* next() calls explored since construction or the last reset
MaxCalls == 4
\* largest buffer capacity a constructor is given
MaxCap == 2
\* width in bits of the int that holds k_ (32 in the build), scaled down
IntBits == 4
\* setter calls explored on one PIDController
MaxTunes == 1

----------------------------------------------------------------------------
(* double, as an exact rational *)

Abs(n) == IF n < 0 THEN -n ELSE n

RECURSIVE Gcd(_, _)
Gcd(a, b) == IF b = 0 THEN a ELSE Gcd(b, a % b)

\* the rational n/d (d # 0) in lowest terms with a positive denominator
Q(n, d) ==
    LET g == Gcd(Abs(n), Abs(d))
        s == IF d < 0 THEN -1 ELSE 1
    IN  <<(s * n) \div g, (s * d) \div g>>

Zero == <<0, 1>>
One == <<1, 1>>
Third == <<1, 3>>
Half == <<1, 2>>

Add(x, y) == Q(x[1] * y[2] + y[1] * x[2], x[2] * y[2])
Sub(x, y) == Q(x[1] * y[2] - y[1] * x[2], x[2] * y[2])
Mul(x, y) == Q(x[1] * y[1], x[2] * y[2])
Div(x, y) == Q(x[1] * y[2], x[2] * y[1])
Neg(x) == <<-x[1], x[2]>>
Leq0(x) == x[1] <= 0
IsZero(x) == x[1] = 0

RECURSIVE Pow10(_)
Pow10(e) == IF e = 0 THEN 1 ELSE 10 * Pow10(e - 1)

RECURSIVE Zeros(_)
Zeros(n) == IF n = 0 THEN <<>> ELSE <<Zero>> \o Zeros(n - 1)

----------------------------------------------------------------------------
(* int: k_ and Sample::k *)

IntMax == 2 ^ (IntBits - 1) - 1
IntMin == -(2 ^ (IntBits - 1))

\* ++k_ on an int.  Signed overflow is undefined behaviour: the set holds
\* every value the build may leave in k_ (wrap-around to IntMin among them).
PreIncrement(k) == IF k = IntMax THEN IntMin .. IntMax ELSE {k + 1}


----------------------------------------------------------------------------
(* operator<<(std::ostream&, double) with the stream's default precision *)

\* p/q (p, q > 0) rounded to the nearest integer, ties to even
RoundHalfEven(p, q) ==
    LET f == p \div q
        r == p % q
    IN  IF 2 * r > q \/ (2 * r = q /\ f % 2 = 1) THEN f + 1 ELSE f

\* least s >= 0 with p * 10^s >= 10^5 * q: the digits to move left
RECURSIVE ScaleUp(_, _, _)
ScaleUp(p, q, s) ==
    IF p * Pow10(s) >= 100000 * q THEN s ELSE ScaleUp(p, q, s + 1)

\* least t >= 0 with p < 10^6 * q * 10^t: the digits to move right
RECURSIVE ScaleDown(_, _, _)
ScaleDown(p, q, t) ==
    IF p < 1000000 * q * Pow10(t) THEN t ELSE ScaleDown(p, q, t + 1)

\* the number the text "os << x" denotes: x rounded to 6 significant digits
FormatDouble(x) ==
    IF x[1] = 0 THEN Zero
    ELSE LET p == Abs(x[1])
             q == x[2]
             sg == IF x[1] < 0 THEN -1 ELSE 1
             t == ScaleDown(p, q, 0)
             s == ScaleUp(p, q, 0)
         IN  IF t > 0
             THEN Q(sg * RoundHalfEven(p, q * Pow10(t)) * Pow10(t), 1)
             ELSE Q(sg * RoundHalfEven(p * Pow10(s), q), Pow10(s))

----------------------------------------------------------------------------
(* DiscreteSystem *)

NoInstance == [kind |-> "none"]

\* a value-initialized Sample
DefaultSample == [in |-> Zero, out |-> Zero, k |-> 0]

Sample(uk, yk, k) == [in |-> uk, out |-> yk, k |-> k]

\* what a constructor leaves: the exception thrown (or "none") and the object
Throw(e) == [thrown |-> e, obj |-> NoInstance]

\* the constructor with its two checks in the other order
DiscreteSystem_CapacityFirst(Ts, bufferSize) ==
    IF bufferSize = 0 THEN Throw("InvalidDimensions")
    ELSE IF Leq0(Ts) THEN Throw("InvalidSamplingTime")
    ELSE [thrown |-> "none",
          obj |-> [Ts_ |-> Ts, k_ |-> 0, bufferSize_ |-> bufferSize,
                   writeIndex_ |-> 0, count_ |-> 0,
                   buffer_ |-> [i \in 0 .. bufferSize - 1 |-> DefaultSample]]]

\* DiscreteSystem::DiscreteSystem: the base subobject, or the exception
DiscreteSystem(Ts, bufferSize) ==
    IF Leq0(Ts) THEN Throw("InvalidSamplingTime")
    ELSE IF bufferSize = 0 THEN Throw("InvalidDimensions")
    ELSE [thrown |-> "none",
          obj |-> [Ts_ |-> Ts, k_ |-> 0, bufferSize_ |-> bufferSize,
                   writeIndex_ |-> 0, count_ |-> 0,
                   buffer_ |-> [i \in 0 .. bufferSize - 1 |-> DefaultSample]]]

\* storeSample counting every sample, also once the buffer is full
storeSample_CountUnbounded(b, uk, yk) ==
    [b EXCEPT !.buffer_[b.writeIndex_] = Sample(uk, yk, b.k_),
              !.count_ = b.count_ + 1,
              !.writeIndex_ = (b.writeIndex_ + 1) % b.bufferSize_]

\* storeSample writing the new sample into every slot
storeSample_FillsAll(b, uk, yk) ==
    [b EXCEPT !.buffer_ = [i \in DOMAIN @ |-> Sample(uk, yk, b.k_)],
              !.count_ = IF b.count_ < b.bufferSize_ THEN b.count_ + 1 ELSE b.count_,
              !.writeIndex_ = (b.writeIndex_ + 1) % b.bufferSize_]

\* DiscreteSystem::storeSample, on the base subobject
storeSample(b, uk, yk) ==
    [b EXCEPT !.buffer_[b.writeIndex_] = Sample(uk, yk, b.k_),
              !.count_ = IF b.count_ < b.bufferSize_ THEN b.count_ + 1 ELSE b.count_,
              !.writeIndex_ = (b.writeIndex_ + 1) % b.bufferSize_]

getK(s) == s.base.k_
getCount(s) == s.base.count_
getSamplingTime(s) == s.base.Ts_

----------------------------------------------------------------------------
(* TransferFunctionSystem *)

\* a[i] / a0 for every coefficient (the two normalisation loops)
Normalized(c, a0) == [i \in 1 .. Len(c) |-> Div(c[i], a0)]

\* the constructor demanding a[0] == 1 where the code demands a[0] != 0
TransferFunctionSystem_MonicOnly(b, a, Ts, bufferSize) ==
    LET base == DiscreteSystem(Ts, bufferSize)
    IN  IF base.thrown # "none" THEN Throw(base.thrown)
        ELSE IF Len(a) = 0 THEN Throw("InvalidCoefficients")
        ELSE IF Len(b) = 0 THEN Throw("InvalidCoefficients")
        ELSE IF a[1] # One THEN Throw("InvalidCoefficients")
        ELSE [thrown |-> "none",
              obj |-> [kind |-> "TransferFunctionSystem",
                       base |-> base.obj,
                       derived |-> [b_ |-> b, a_ |-> a,
                                    uHist_ |-> Zeros(Len(b)),
                                    yHist_ |-> Zeros(Len(a) - 1)]]]

\* the constructor normalising the denominator only
TransferFunctionSystem_RawNumerator(b, a, Ts, bufferSize) ==
    LET base == DiscreteSystem(Ts, bufferSize)
    IN  IF base.thrown # "none" THEN Throw(base.thrown)
        ELSE IF Len(a) = 0 THEN Throw("InvalidCoefficients")
        ELSE IF Len(b) = 0 THEN Throw("InvalidCoefficients")
        ELSE IF IsZero(a[1]) THEN Throw("InvalidCoefficients")
        ELSE [thrown |-> "none",
              obj |-> [kind |-> "TransferFunctionSystem",
                       base |-> base.obj,
                       derived |-> [b_ |-> b, a_ |-> Normalized(a, a[1]),
                                    uHist_ |-> Zeros(Len(b)),
                                    yHist_ |-> Zeros(Len(a) - 1)]]]

\* the constructor checking the coefficients before the base is constructed
TransferFunctionSystem_CoefficientsFirst(b, a, Ts, bufferSize) ==
    LET base == DiscreteSystem(Ts, bufferSize)
    IN  IF Len(a) = 0 THEN Throw("InvalidCoefficients")
        ELSE IF Len(b) = 0 THEN Throw("InvalidCoefficients")
        ELSE IF IsZero(a[1]) THEN Throw("InvalidCoefficients")
        ELSE IF base.thrown # "none" THEN Throw(base.thrown)
        ELSE LET a_ == Normalized(a, a[1])
                 b_ == Normalized(b, a[1])
             IN  [thrown |-> "none",
                  obj |-> [kind |-> "TransferFunctionSystem",
                           base |-> base.obj,
                           derived |-> [b_ |-> b_, a_ |-> a_,
                                        uHist_ |-> Zeros(Len(b_)),
                                        yHist_ |-> Zeros(IF Len(a_) > 0
                                                         THEN Len(a_) - 1 ELSE 0)]]]

\* TransferFunctionSystem::TransferFunctionSystem
TransferFunctionSystem(b, a, Ts, bufferSize) ==
    LET base == DiscreteSystem(Ts, bufferSize)
    IN  IF base.thrown # "none" THEN Throw(base.thrown)
        ELSE IF Len(a) = 0 THEN Throw("InvalidCoefficients")
        ELSE IF Len(b) = 0 THEN Throw("InvalidCoefficients")
        ELSE IF IsZero(a[1]) THEN Throw("InvalidCoefficients")
        ELSE LET a_ == Normalized(a, a[1])
                 b_ == Normalized(b, a[1])
             IN  [thrown |-> "none",
                  obj |-> [kind |-> "TransferFunctionSystem",
                           base |-> base.obj,
                           derived |-> [b_ |-> b_, a_ |-> a_,
                                        uHist_ |-> Zeros(Len(b_)),
                                        yHist_ |-> Zeros(IF Len(a_) > 0
                                                         THEN Len(a_) - 1 ELSE 0)]]]

\* for (i = size - 1; i > 0; --i) h[i] = h[i - 1];  entered with C++ index i
RECURSIVE ShiftLoop(_, _)
ShiftLoop(h, i) ==
    IF i > 0 THEN ShiftLoop([h EXCEPT ![i + 1] = h[i]], i - 1) ELSE h

\* the newest value written at the front with nothing moved
Shifted_Overwrites(h, v) ==
    IF Len(h) # 0 THEN [h EXCEPT ![1] = v] ELSE h

\* the history shifted right by one with v at the front; an empty one is left alone
Shifted(h, v) ==
    IF Len(h) # 0 THEN [ShiftLoop(h, Len(h) - 1) EXCEPT ![1] = v] ELSE h

\* for (i = 0; i < b_.size(); ++i) y_num += b_[i] * uHist_[i];
RECURSIVE NumLoop(_, _, _, _)
NumLoop(b_, uHist_, i, y_num) ==
    IF i < Len(b_)
    THEN NumLoop(b_, uHist_, i + 1, Add(y_num, Mul(b_[i + 1], uHist_[i + 1])))
    ELSE y_num

\* for (j = 1; j < a_.size(); ++j) y_den += a_[j] * yHist_[j - 1];
RECURSIVE DenLoop(_, _, _, _)
DenLoop(a_, yHist_, j, y_den) ==
    IF j < Len(a_)
    THEN DenLoop(a_, yHist_, j + 1, Add(y_den, Mul(a_[j + 1], yHist_[j])))
    ELSE y_den

\* compute adding the denominator sum where the code subtracts it
TransferFunctionSystem_compute_AddsFeedback(d, uk) ==
    LET uHist == Shifted(d.uHist_, uk)
        y_num == NumLoop(d.b_, uHist, 0, Zero)
        y_den == DenLoop(d.a_, d.yHist_, 1, Zero)
        yk == Add(y_num, y_den)
    IN  [y |-> yk,
         derived |-> [d EXCEPT !.uHist_ = uHist, !.yHist_ = Shifted(d.yHist_, yk)]]

\* TransferFunctionSystem::compute: the output and the members it leaves
TransferFunctionSystem_compute(d, uk) ==
    LET uHist == Shifted(d.uHist_, uk)
        y_num == NumLoop(d.b_, uHist, 0, Zero)
        y_den == DenLoop(d.a_, d.yHist_, 1, Zero)
        yk == Sub(y_num, y_den)
    IN  [y |-> yk,
         derived |-> [d EXCEPT !.uHist_ = uHist, !.yHist_ = Shifted(d.yHist_, yk)]]

\* resetState clearing the input history only
TransferFunctionSystem_resetState_KeepsOutputs(d) ==
    [d EXCEPT !.uHist_ = Zeros(Len(d.uHist_))]

\* resetState emptying the histories where the code zero-fills them
TransferFunctionSystem_resetState_Clears(d) ==
    [d EXCEPT !.uHist_ = <<>>, !.yHist_ = <<>>]

\* TransferFunctionSystem::resetState
TransferFunctionSystem_resetState(d) ==
    [d EXCEPT !.uHist_ = Zeros(Len(d.uHist_)), !.yHist_ = Zeros(Len(d.yHist_))]

----------------------------------------------------------------------------
(* StateSpaceSystem *)

\* the constructor without its n_ == 0 check
StateSpaceSystem_NoEmptyCheck(A, B, C, D, Ts, bufferSize) ==
    LET base == DiscreteSystem(Ts, bufferSize)
        n_ == Len(A)
    IN  IF base.thrown # "none" THEN Throw(base.thrown)
        ELSE IF \E i \in 1 .. n_ : Len(A[i]) # n_ THEN Throw("InvalidDimensions")
        ELSE IF Len(B) # n_ THEN Throw("InvalidDimensions")
        ELSE IF Len(C) # n_ THEN Throw("InvalidDimensions")
        ELSE [thrown |-> "none",
              obj |-> [kind |-> "StateSpaceSystem",
                       base |-> base.obj,
                       derived |-> [A_ |-> A, B_ |-> B, C_ |-> C, D_ |-> D,
                                    x_ |-> Zeros(n_), n_ |-> n_]]]

\* StateSpaceSystem::StateSpaceSystem
StateSpaceSystem(A, B, C, D, Ts, bufferSize) ==
    LET base == DiscreteSystem(Ts, bufferSize)
        n_ == Len(A)
    IN  IF base.thrown # "none" THEN Throw(base.thrown)
        ELSE IF n_ = 0 THEN Throw("InvalidDimensions")
        ELSE IF \E i \in 1 .. n_ : Len(A[i]) # n_ THEN Throw("InvalidDimensions")
        ELSE IF Len(B) # n_ THEN Throw("InvalidDimensions")
        ELSE IF Len(C) # n_ THEN Throw("InvalidDimensions")
        ELSE [thrown |-> "none",
              obj |-> [kind |-> "StateSpaceSystem",
                       base |-> base.obj,
                       derived |-> [A_ |-> A, B_ |-> B, C_ |-> C, D_ |-> D,
                                    x_ |-> Zeros(n_), n_ |-> n_]]]

\* for (i = 0; i < n; ++i) acc += row[i] * x[i];
RECURSIVE DotLoop(_, _, _, _, _)
DotLoop(row, x, n, i, acc) ==
    IF i < n THEN DotLoop(row, x, n, i + 1, Add(acc, Mul(row[i + 1], x[i + 1])))
    ELSE acc

\* compute writing each new component into x_ itself, so that later rows read it
RECURSIVE InPlaceLoop(_, _, _, _)
InPlaceLoop(d, uk, i, x) ==
    IF i < d.n_
    THEN InPlaceLoop(d, uk, i + 1,
             [x EXCEPT ![i + 1] = Add(DotLoop(d.A_[i + 1], x, d.n_, 0, Zero),
                                      Mul(d.B_[i + 1], uk))])
    ELSE x
StateSpaceSystem_compute_InPlace(d, uk) ==
    LET yk == Add(DotLoop(d.C_, d.x_, d.n_, 0, Zero), Mul(d.D_, uk))
    IN  [y |-> yk, derived |-> [d EXCEPT !.x_ = InPlaceLoop(d, uk, 0, d.x_)]]

\* StateSpaceSystem::compute
StateSpaceSystem_compute(d, uk) ==
    LET yk == Add(DotLoop(d.C_, d.x_, d.n_, 0, Zero), Mul(d.D_, uk))
        x_next == [i \in 1 .. d.n_ |->
                     Add(DotLoop(d.A_[i], d.x_, d.n_, 0, Zero), Mul(d.B_[i], uk))]
    IN  [y |-> yk, derived |-> [d EXCEPT !.x_ = x_next]]

\* resetState leaving x_ as it is
StateSpaceSystem_resetState_KeepsState(d) == d

\* resetState emptying x_ where the code zero-fills it
StateSpaceSystem_resetState_Empties(d) == [d EXCEPT !.x_ = <<>>]

\* StateSpaceSystem::resetState
StateSpaceSystem_resetState(d) == [d EXCEPT !.x_ = Zeros(Len(d.x_))]

----------------------------------------------------------------------------
(* PIDController *)

Two == <<2, 1>>

\* PIDController::updateCoefficients
updateCoefficients(d, Ts) ==
    [d EXCEPT !.a0_ = Add(Add(d.Kp_, Mul(d.Ki_, Ts)), Div(d.Kd_, Ts)),
              !.a1_ = Sub(Neg(d.Kp_), Div(Mul(Two, d.Kd_), Ts)),
              !.a2_ = Div(d.Kd_, Ts)]

\* PIDController::PIDController
PIDController(Kp, Ki, Kd, Ts, bufferSize) ==
    LET base == DiscreteSystem(Ts, bufferSize)
    IN  IF base.thrown # "none" THEN Throw(base.thrown)
        ELSE [thrown |-> "none",
              obj |-> [kind |-> "PIDController",
                       base |-> base.obj,
                       derived |-> updateCoefficients(
                           [Kp_ |-> Kp, Ki_ |-> Ki, Kd_ |-> Kd,
                            a0_ |-> Zero, a1_ |-> Zero, a2_ |-> Zero,
                            e_k1_ |-> Zero, e_k2_ |-> Zero, u_k1_ |-> Zero], Ts)]]

\* compute storing e[k] into e_k1_ before e_k1_ is moved to e_k2_
PIDController_compute_ShiftsLate(d, ek) ==
    LET delta_u == Add(Add(Mul(d.a0_, ek), Mul(d.a1_, d.e_k1_)), Mul(d.a2_, d.e_k2_))
        uk == Add(d.u_k1_, delta_u)
    IN  [y |-> uk,
         derived |-> [d EXCEPT !.e_k1_ = ek, !.e_k2_ = ek, !.u_k1_ = uk]]

\* compute returning the increment alone, without u_k1_
PIDController_compute_DeltaOnly(d, ek) ==
    LET delta_u == Add(Add(Mul(d.a0_, ek), Mul(d.a1_, d.e_k1_)), Mul(d.a2_, d.e_k2_))
        uk == delta_u
    IN  [y |-> uk,
         derived |-> [d EXCEPT !.e_k2_ = d.e_k1_, !.e_k1_ = ek, !.u_k1_ = uk]]

\* compute weighting e[k-2] by a1_ and e[k-1] by a2_
PIDController_compute_SwapsErrors(d, ek) ==
    LET delta_u == Add(Add(Mul(d.a0_, ek), Mul(d.a1_, d.e_k2_)), Mul(d.a2_, d.e_k1_))
        uk == Add(d.u_k1_, delta_u)
    IN  [y |-> uk,
         derived |-> [d EXCEPT !.e_k2_ = d.e_k1_, !.e_k1_ = ek, !.u_k1_ = uk]]

\* PIDController::compute
PIDController_compute(d, ek) ==
    LET delta_u == Add(Add(Mul(d.a0_, ek), Mul(d.a1_, d.e_k1_)), Mul(d.a2_, d.e_k2_))
        uk == Add(d.u_k1_, delta_u)
    IN  [y |-> uk,
         derived |-> [d EXCEPT !.e_k2_ = d.e_k1_, !.e_k1_ = ek, !.u_k1_ = uk]]

\* resetState clearing the derived coefficients with the histories
PIDController_resetState_ClearsCoefficients(d) ==
    [d EXCEPT !.e_k1_ = Zero, !.e_k2_ = Zero, !.u_k1_ = Zero,
              !.a0_ = Zero, !.a1_ = Zero, !.a2_ = Zero]

\* PIDController::resetState
PIDController_resetState(d) ==
    [d EXCEPT !.e_k1_ = Zero, !.e_k2_ = Zero, !.u_k1_ = Zero]

\* PIDController::setKp, setKi, setKd, setGains, on the whole instance
\* setKp storing the gain and leaving a0_, a1_, a2_ for later
setKp_Lazy(s, Kp) ==
    [s EXCEPT !.derived = [@ EXCEPT !.Kp_ = Kp]]
setKp(s, Kp) ==
    [s EXCEPT !.derived = updateCoefficients([@ EXCEPT !.Kp_ = Kp], s.base.Ts_)]
setKi(s, Ki) ==
    [s EXCEPT !.derived = updateCoefficients([@ EXCEPT !.Ki_ = Ki], s.base.Ts_)]
\* setKd storing the gain and leaving a0_, a1_, a2_ for later
setKd_Lazy(s, Kd) ==
    [s EXCEPT !.derived = [@ EXCEPT !.Kd_ = Kd]]
setKd(s, Kd) ==
    [s EXCEPT !.derived = updateCoefficients([@ EXCEPT !.Kd_ = Kd], s.base.Ts_)]
\* setGains clearing the histories as resetState does
setGains_Resets(s, Kp, Ki, Kd) ==
    [s EXCEPT !.derived = PIDController_resetState(updateCoefficients(
                  [@ EXCEPT !.Kp_ = Kp, !.Ki_ = Ki, !.Kd_ = Kd], s.base.Ts_))]
setGains(s, Kp, Ki, Kd) ==
    [s EXCEPT !.derived = updateCoefficients(
                  [@ EXCEPT !.Kp_ = Kp, !.Ki_ = Ki, !.Kd_ = Kd], s.base.Ts_)]

----------------------------------------------------------------------------
(* ADConverter, DAConverter *)

\* ADConverter::ADConverter
ADConverter(Ts, bufferSize) ==
    LET base == DiscreteSystem(Ts, bufferSize)
    IN  IF base.thrown # "none" THEN Throw(base.thrown)
        ELSE [thrown |-> "none",
              obj |-> [kind |-> "ADConverter", base |-> base.obj,
                       derived |-> [y_k1_ |-> Zero]]]

\* ADConverter::compute
ADConverter_compute(d, yk) == [y |-> d.y_k1_, derived |-> [d EXCEPT !.y_k1_ = yk]]

\* resetState leaving the held sample as it is
ADConverter_resetState_KeepsLast(d) == d

\* ADConverter::resetState
ADConverter_resetState(d) == [d EXCEPT !.y_k1_ = Zero]

\* DAConverter::DAConverter (the class has no member of its own)
DAConverter(Ts, bufferSize) ==
    LET base == DiscreteSystem(Ts, bufferSize)
    IN  IF base.thrown # "none" THEN Throw(base.thrown)
        ELSE [thrown |-> "none",
              obj |-> [kind |-> "DAConverter", base |-> base.obj,
                       derived |-> <<>>]]

\* DAConverter::compute
DAConverter_compute(d, uk) == [y |-> uk, derived |-> d]

\* DAConverter::resetState
DAConverter_resetState(d) == d

----------------------------------------------------------------------------
(* The non-virtual interface of DiscreteSystem *)

\* virtual double compute(double): dispatch on the dynamic type
compute(s, uk) ==
    CASE s.kind = "TransferFunctionSystem" -> TransferFunctionSystem_compute(s.derived, uk)
      [] s.kind = "StateSpaceSystem" -> StateSpaceSystem_compute(s.derived, uk)
      [] s.kind = "PIDController" -> PIDController_compute(s.derived, uk)
      [] s.kind = "ADConverter" -> ADConverter_compute(s.derived, uk)
      [] s.kind = "DAConverter" -> DAConverter_compute(s.derived, uk)

\* virtual void resetState(): dispatch on the dynamic type
resetState(s) ==
    CASE s.kind = "TransferFunctionSystem" -> TransferFunctionSystem_resetState(s.derived)
      [] s.kind = "StateSpaceSystem" -> StateSpaceSystem_resetState(s.derived)
      [] s.kind = "PIDController" -> PIDController_resetState(s.derived)
      [] s.kind = "ADConverter" -> ADConverter_resetState(s.derived)
      [] s.kind = "DAConverter" -> DAConverter_resetState(s.derived)

\* next incrementing k_ before the sample is stored
next_IncrementFirst(s, uk) ==
    LET c == compute(s, uk)
    IN  {[y |-> c.y,
          s |-> [s EXCEPT !.derived = c.derived,
                          !.base = storeSample([s.base EXCEPT !.k_ = k], uk, c.y)]] :
            k \in PreIncrement(s.base.k_)}

\* DiscreteSystem::next: every outcome [y, s] of the call (one, unless ++k_ overflows)
next(s, uk) ==
    LET c == compute(s, uk)
        stored == storeSample(s.base, uk, c.y)
    IN  {[y |-> c.y,
          s |-> [s EXCEPT !.derived = c.derived,
                          !.base = [stored EXCEPT !.k_ = k]]] :
            k \in PreIncrement(stored.k_)}

\* reset leaving k_ as it is
reset_KeepsK(s) ==
    [s EXCEPT !.base = [@ EXCEPT !.writeIndex_ = 0, !.count_ = 0,
                                 !.buffer_ = [i \in DOMAIN @ |-> DefaultSample]],
              !.derived = resetState(s)]

\* reset leaving count_ as it is
reset_KeepsCount(s) ==
    [s EXCEPT !.base = [@ EXCEPT !.k_ = 0, !.writeIndex_ = 0,
                                 !.buffer_ = [i \in DOMAIN @ |-> DefaultSample]],
              !.derived = resetState(s)]

\* reset reallocating the buffer with a single slot
reset_Reallocates(s) ==
    [s EXCEPT !.base = [@ EXCEPT !.k_ = 0, !.writeIndex_ = 0, !.count_ = 0,
                                 !.buffer_ = [i \in {0} |-> DefaultSample]],
              !.derived = resetState(s)]

\* reset leaving writeIndex_ as it is
reset_KeepsWriteIndex(s) ==
    [s EXCEPT !.base = [@ EXCEPT !.k_ = 0, !.count_ = 0,
                                 !.buffer_ = [i \in DOMAIN @ |-> DefaultSample]],
              !.derived = resetState(s)]

\* DiscreteSystem::reset
reset(s) ==
    [s EXCEPT !.base = [@ EXCEPT !.k_ = 0, !.writeIndex_ = 0, !.count_ = 0,
                                 !.buffer_ = [i \in DOMAIN @ |-> DefaultSample]],
              !.derived = resetState(s)]

\* the loop reading the newest sample first
RECURSIVE DumpLoop_NewestFirst(_, _, _, _)
DumpLoop_NewestFirst(b, oldestIndex, i, rows) ==
    IF i < b.count_
    THEN LET smp == b.buffer_[(oldestIndex + b.count_ - 1 - i) % b.bufferSize_]
         IN  DumpLoop_NewestFirst(b, oldestIndex, i + 1,
                      Append(rows, <<smp.k, FormatDouble(smp.in), FormatDouble(smp.out)>>))
    ELSE rows

\* the loop reading from slot 0 whatever the oldest slot is
RECURSIVE DumpLoop_FromSlotZero(_, _, _, _)
DumpLoop_FromSlotZero(b, oldestIndex, i, rows) ==
    IF i < b.count_
    THEN LET smp == b.buffer_[i % b.bufferSize_]
         IN  DumpLoop_FromSlotZero(b, oldestIndex, i + 1,
                      Append(rows, <<smp.k, FormatDouble(smp.in), FormatDouble(smp.out)>>))
    ELSE rows

\* for (i = 0; i < count_; ++i) { idx = (oldestIndex + i) % bufferSize_; os << ... }
\* each row is the text's three numbers <<k, u, y>>
RECURSIVE DumpLoop(_, _, _, _)
DumpLoop(b, oldestIndex, i, rows) ==
    IF i < b.count_
    THEN LET smp == b.buffer_[(oldestIndex + i) % b.bufferSize_]
         IN  DumpLoop(b, oldestIndex, i + 1,
                      Append(rows, <<smp.k, FormatDouble(smp.in), FormatDouble(smp.out)>>))
    ELSE rows

\* the MATLAB loop stopping where the last ';' is written
RECURSIVE DumpLoopMATLAB_StopsAtSeparator(_, _, _, _)
DumpLoopMATLAB_StopsAtSeparator(b, oldestIndex, i, rows) ==
    IF i + 1 < b.count_
    THEN LET smp == b.buffer_[(oldestIndex + i) % b.bufferSize_]
         IN  DumpLoopMATLAB_StopsAtSeparator(b, oldestIndex, i + 1,
                      Append(rows, <<smp.k, FormatDouble(smp.in), FormatDouble(smp.out)>>))
    ELSE rows

\* the loop of the MATLAB branch: the same indices, ';' between the rows
RECURSIVE DumpLoopMATLAB(_, _, _, _)
DumpLoopMATLAB(b, oldestIndex, i, rows) ==
    IF i < b.count_
    THEN LET idx == (oldestIndex + i) % b.bufferSize_
             smp == b.buffer_[idx]
         IN  DumpLoopMATLAB(b, oldestIndex, i + 1,
                      Append(rows, <<smp.k, FormatDouble(smp.in), FormatDouble(smp.out)>>))
    ELSE rows

\* DiscreteSystem::bufferDump: what is written to the stream, as the comment
\* lines before the rows, the rows, their separators and the lines after
bufferDump(s, format) ==
    LET b == s.base
        oldestIndex == IF b.count_ = b.bufferSize_ THEN b.writeIndex_ ELSE 0
    IN  IF b.count_ = 0
        THEN [header |-> <<"# Empty buffer">>, rows |-> <<>>,
              colSep |-> "", rowSep |-> "", footer |-> <<>>]
        ELSE IF format = "TSV"
        THEN [header |-> <<"# k\tu(k)\ty(k)">>,
              rows |-> DumpLoop(b, oldestIndex, 0, <<>>),
              colSep |-> "\t", rowSep |-> "\n", footer |-> <<>>]
        ELSE [header |-> <<"% Export format: MATLAB compatible",
                           "% Columns: k u y", "data = [">>,
              rows |-> DumpLoopMATLAB(b, oldestIndex, 0, <<>>),
              colSep |-> " ", rowSep |-> ";",
              footer |-> <<"];", "% Usage in MATLAB/Octave: load('file'); k = data(:,1); u = data(:,2); y = data(:,3);">>]

ExportFormat == {"TSV", "MATLAB"}

----------------------------------------------------------------------------
(* The calls a client makes, and the values it passes *)

MinusOne == <<-1, 1>>
Four == <<4, 1>>

\* sampling periods: negative, zero, positive
TsSet == {MinusOne, Zero, Half}
\* buffer capacities
CapSet == 0 .. MaxCap
\* inputs of next()
InputSet == {One, Third}
\* numerators and denominators given to TransferFunctionSystem
TFArgs ==
    {[b |-> <<One>>, a |-> <<One>>],
     [b |-> <<Four, Two>>, a |-> <<Two, MinusOne>>],
     [b |-> <<One>>, a |-> <<>>],
     [b |-> <<>>, a |-> <<One>>],
     [b |-> <<>>, a |-> <<>>],
     [b |-> <<One>>, a |-> <<Zero, One>>],
     [b |-> <<>>, a |-> <<Zero, One>>]}
\* matrices and vectors given to StateSpaceSystem
SSArgs ==
    {[A |-> <<<<Half>>>>, B |-> <<One>>, C |-> <<One>>, D |-> Zero],
     [A |-> <<<<Zero, One>>, <<MinusOne, Half>>>>, B |-> <<Zero, One>>,
      C |-> <<One, Zero>>, D |-> One],
     [A |-> <<>>, B |-> <<>>, C |-> <<>>, D |-> Zero],
     [A |-> <<<<One, Zero>>>>, B |-> <<One>>, C |-> <<One>>, D |-> Zero],
     [A |-> <<<<Half>>>>, B |-> <<One, One>>, C |-> <<One>>, D |-> Zero],
     [A |-> <<<<Half>>>>, B |-> <<One>>, C |-> <<>>, D |-> Zero]}
\* gains given to the PIDController constructor, and to its setters
PIDArgs == {[Kp |-> One, Ki |-> Half, Kd |-> One]}
GainSet == {Two}

\* a newly constructed instance with the parameters of s: the constructor
\* arguments c, and for the PIDController the gains s now holds
FreshLike(s, c) ==
    CASE c.kind = "TransferFunctionSystem" ->
             TransferFunctionSystem(c.b, c.a, c.Ts, c.bufferSize).obj
      [] c.kind = "StateSpaceSystem" ->
             StateSpaceSystem(c.A, c.B, c.C, c.D, c.Ts, c.bufferSize).obj
      [] c.kind = "PIDController" ->
             PIDController(s.derived.Kp_, s.derived.Ki_, s.derived.Kd_,
                           c.Ts, c.bufferSize).obj
      [] c.kind = "ADConverter" -> ADConverter(c.Ts, c.bufferSize).obj
      [] c.kind = "DAConverter" -> DAConverter(c.Ts, c.bufferSize).obj

Init ==
    /\ sys = NoInstance
    /\ ctor = [kind |-> "none"]
    /\ op = "none"
    /\ arg = <<>>
    /\ ret = "none"
    /\ prev = NoInstance
    /\ hist = <<>>
    /\ tunes = 0

\* a constructor call with arguments c that ended as r
Constructed(c, r) ==
    /\ sys = NoInstance
    /\ sys' = r.obj
    /\ ctor' = c
    /\ op' = "ctor"
    /\ arg' = <<>>
    /\ ret' = r.thrown
    /\ prev' = sys
    /\ hist' = <<>>
    /\ tunes' = 0

NewTransferFunctionSystem ==
    \E c \in TFArgs, Ts \in TsSet, bufferSize \in CapSet :
        Constructed([kind |-> "TransferFunctionSystem", b |-> c.b, a |-> c.a,
                     Ts |-> Ts, bufferSize |-> bufferSize],
                    TransferFunctionSystem(c.b, c.a, Ts, bufferSize))

NewStateSpaceSystem ==
    \E m \in SSArgs, Ts \in TsSet, bufferSize \in CapSet :
        Constructed([kind |-> "StateSpaceSystem", A |-> m.A, B |-> m.B, C |-> m.C,
                     D |-> m.D, Ts |-> Ts, bufferSize |-> bufferSize],
                    StateSpaceSystem(m.A, m.B, m.C, m.D, Ts, bufferSize))

NewPIDController ==
    \E g \in PIDArgs, Ts \in TsSet, bufferSize \in CapSet :
        Constructed([kind |-> "PIDController", Kp |-> g.Kp, Ki |-> g.Ki, Kd |-> g.Kd,
                     Ts |-> Ts, bufferSize |-> bufferSize],
                    PIDController(g.Kp, g.Ki, g.Kd, Ts, bufferSize))

NewADConverter ==
    \E Ts \in TsSet, bufferSize \in CapSet :
        Constructed([kind |-> "ADConverter", Ts |-> Ts, bufferSize |-> bufferSize],
                    ADConverter(Ts, bufferSize))

NewDAConverter ==
    \E Ts \in TsSet, bufferSize \in CapSet :
        Constructed([kind |-> "DAConverter", Ts |-> Ts, bufferSize |-> bufferSize],
                    DAConverter(Ts, bufferSize))

\* sys.next(uk)
CallNext ==
    /\ sys # NoInstance
    /\ Len(hist) < MaxCalls
    /\ \E uk \in InputSet :
         \E r \in next(sys, uk) :
            /\ sys' = r.s
            /\ op' = "next"
            /\ arg' = uk
            /\ ret' = r.y
            /\ hist' = Append(hist, <<uk, r.y>>)
    /\ prev' = sys
    /\ UNCHANGED <<ctor, tunes>>

\* sys.reset()
CallReset ==
    /\ sys # NoInstance
    /\ sys' = reset(sys)
    /\ op' = "reset"
    /\ arg' = <<>>
    /\ ret' = "void"
    /\ prev' = sys
    /\ hist' = <<>>
    /\ UNCHANGED <<ctor, tunes>>

\* a dump that consumes what it writes, leaving the buffer empty
CallBufferDump_Drains ==
    /\ sys # NoInstance
    /\ \E format \in ExportFormat :
         /\ arg' = format
         /\ ret' = bufferDump(sys, format)
    /\ op' = "bufferDump"
    /\ prev' = sys
    /\ sys' = [sys EXCEPT !.base.count_ = 0, !.base.writeIndex_ = 0]
    /\ UNCHANGED <<ctor, hist, tunes>>

\* sys.bufferDump(os, format)
CallBufferDump ==
    /\ sys # NoInstance
    /\ \E format \in ExportFormat :
         /\ arg' = format
         /\ ret' = bufferDump(sys, format)
    /\ op' = "bufferDump"
    /\ prev' = sys
    /\ UNCHANGED <<sys, ctor, hist, tunes>>

\* a setter call named name with argument v that leaves the instance as s
Tuned(name, v, s) ==
    /\ sys' = s
    /\ op' = name
    /\ arg' = v
    /\ ret' = "void"
    /\ prev' = sys
    /\ tunes' = tunes + 1
    /\ UNCHANGED <<ctor, hist>>

IsPID == sys # NoInstance /\ sys.kind = "PIDController" /\ tunes < MaxTunes

\* sys.setKp(Kp)
CallSetKp ==
    /\ IsPID
    /\ \E Kp \in GainSet : Tuned("setKp", Kp, setKp(sys, Kp))

\* sys.setKi(Ki)
CallSetKi ==
    /\ IsPID
    /\ \E Ki \in GainSet : Tuned("setKi", Ki, setKi(sys, Ki))

\* sys.setKd(Kd)
CallSetKd ==
    /\ IsPID
    /\ \E Kd \in GainSet : Tuned("setKd", Kd, setKd(sys, Kd))

\* sys.setGains(Kp, Ki, Kd)
CallSetGains ==
    /\ IsPID
    /\ \E Kp \in GainSet, Ki \in GainSet, Kd \in GainSet :
         Tuned("setGains", <<Kp, Ki, Kd>>, setGains(sys, Kp, Ki, Kd))

Next ==
    \/ NewTransferFunctionSystem
    \/ NewStateSpaceSystem
    \/ NewPIDController
    \/ NewADConverter
    \/ NewDAConverter
    \/ CallNext
    \/ CallReset
    \/ CallBufferDump
    \/ CallSetKp
    \/ CallSetKi
    \/ CallSetKd
    \/ CallSetGains

Spec == Init /\ [][Next]_vars

----------------------------------------------------------------------------
(* Long runs: next() called past the range of int.  The calls are not counted *)
(* here, so hist stays empty.                                                 *)

\* sys.next(uk), however many calls went before
CallNextLong ==
    /\ sys # NoInstance
    /\ \E uk \in InputSet :
         \E r \in next(sys, uk) :
            /\ sys' = r.s
            /\ op' = "next"
            /\ arg' = uk
            /\ ret' = r.y
    /\ prev' = sys
    /\ UNCHANGED <<ctor, hist, tunes>>

NextLong ==
    \/ NewDAConverter
    \/ CallNextLong
    \/ CallReset

SpecLong == Init /\ [][NextLong]_vars

----------------------------------------------------------------------------
(* The contract of next(), getK() and bufferDump() *)

\* the samples a dump must show after the calls in h: the last n of them,
\* numbered from Len(h) - n, with the numbers as conv renders them
Exact(x) == x
Printed(x) == FormatDouble(x)
ExpectedRows(h, n, conv(_)) ==
    [i \in 1 .. n |-> <<Len(h) - n + i - 1,
                        conv(h[Len(h) - n + i][1]),
                        conv(h[Len(h) - n + i][2])>>]

\* C1: a call next(u) computes y = compute(u) once, stores Sample{u, y, k_ as
\* it was before the call} in the slot writeIndex_ pointed at (and in no other
\* slot), advances the ring buffer once, increments k_ once and returns y.
C1_NextSequence ==
    op = "next" =>
        LET c == compute(prev, arg)
            w == prev.base.writeIndex_
        IN  /\ ret = c.y
            /\ sys.kind = prev.kind
            /\ sys.derived = c.derived
            /\ sys.base.buffer_[w] = Sample(arg, c.y, prev.base.k_)
            /\ \A i \in DOMAIN sys.base.buffer_ \ {w} :
                  sys.base.buffer_[i] = prev.base.buffer_[i]
            /\ sys.base.writeIndex_ = (w + 1) % prev.base.bufferSize_
            /\ sys.base.count_ = IF prev.base.count_ < prev.base.bufferSize_
                                 THEN prev.base.count_ + 1 ELSE prev.base.count_
            /\ sys.base.k_ = prev.base.k_ + 1
            /\ sys.base.Ts_ = prev.base.Ts_
            /\ sys.base.bufferSize_ = prev.base.bufferSize_

\* a next() on a PIDController that had stepped before
C1_Witness ==
    /\ op = "next"
    /\ sys.kind = "PIDController"
    /\ prev.base.k_ = 2
    /\ sys.base.buffer_[prev.base.writeIndex_].k = 2

\* C2: getK() is the number of next() calls since construction or the last
\* reset(), whatever next, reset, bufferDump and PID setter calls were made.
C2_StepIndexCountsCalls ==
    sys # NoInstance => getK(sys) = Len(hist)

\* a tuned PIDController stepping for the third time since its last reset
C2_Witness ==
    /\ op = "next"
    /\ tunes = 1
    /\ Len(hist) = 3
    /\ getK(sys) = 3

\* C3 as stated: after N <= C calls a dump has N rows numbered 0 .. N-1, each
\* carrying the input and the output of its call.
C3_RowsCarryValues ==
    (op = "bufferDump" /\ Len(hist) > 0 /\ Len(hist) <= sys.base.bufferSize_) =>
        ret.rows = ExpectedRows(hist, Len(hist), Exact)

\* C3 amended: after N <= C calls a dump has N rows numbered 0 .. N-1, each
\* carrying the input and the output of its call as the stream prints a
\* double, that is rounded to six significant digits.
C3_DumpNotFull ==
    (op = "bufferDump" /\ Len(hist) > 0 /\ Len(hist) <= sys.base.bufferSize_) =>
        /\ Len(ret.rows) = Len(hist)
        /\ ret.rows = ExpectedRows(hist, Len(hist), Printed)

\* a dump of two samples from a buffer of two slots
C3_Witness ==
    /\ op = "bufferDump"
    /\ Len(hist) = 2
    /\ sys.base.bufferSize_ = 2
    /\ Len(ret.rows) = 2
    /\ ret.rows[2][1] = 1

\* C4: after N > C calls a dump has C rows numbered N-C .. N-1 in increasing
\* order, the most recent C samples, read from slot writeIndex_ on.
C4_DumpWrapped ==
    (op = "bufferDump" /\ Len(hist) > sys.base.bufferSize_) =>
        LET C == sys.base.bufferSize_
            N == Len(hist)
        IN  /\ Len(ret.rows) = C
            /\ \A i \in 1 .. C : ret.rows[i][1] = N - C + i - 1
            /\ ret.rows = ExpectedRows(hist, C, Printed)
            /\ ret.rows[1][1] = sys.base.buffer_[sys.base.writeIndex_].k

\* a dump after three samples went into two slots: the oldest row is not in slot 0
C4_Witness ==
    /\ op = "bufferDump"
    /\ Len(hist) = 3
    /\ sys.base.bufferSize_ = 2
    /\ sys.base.writeIndex_ = 1
    /\ ret.rows[1][1] = 1

\* C5: of an instance, 0 <= count_ <= bufferSize_ and 0 <= writeIndex_ < bufferSize_.
C5_BufferBounds ==
    sys # NoInstance =>
        /\ 0 <= sys.base.count_
        /\ sys.base.count_ <= sys.base.bufferSize_
        /\ 0 <= sys.base.writeIndex_
        /\ sys.base.writeIndex_ < sys.base.bufferSize_

\* a full buffer of two slots whose write index has wrapped to 0
C5_Witness ==
    /\ op = "next"
    /\ sys.base.bufferSize_ = 2
    /\ sys.base.count_ = 2
    /\ prev.base.count_ = 2
    /\ sys.base.writeIndex_ = 0

\* C6: k_ is never negative, however many next() calls are made without a
\* reset, also more than IntMax of them.
C6_StepIndexNonNegative ==
    sys # NoInstance => sys.base.k_ >= 0

----------------------------------------------------------------------------
(* The contract of reset() *)

\* C7: a second reset() changes nothing of the instance a first reset() left
\* (k_, writeIndex_, count_, every slot, the subtype's state), and a dump
\* after one or after two resets reports no sample.
C7_ResetIdempotent ==
    op = "reset" =>
        /\ sys = reset(prev)
        /\ reset(sys) = sys
        /\ \A format \in ExportFormat :
              /\ bufferDump(sys, format).rows = <<>>
              /\ bufferDump(sys, format).header = <<"# Empty buffer">>
              /\ bufferDump(reset(sys), format) = bufferDump(sys, format)

\* a reset() of an instance whose buffer was full and whose k_ had advanced
C7_Witness ==
    /\ op = "reset"
    /\ prev.base.count_ = prev.base.bufferSize_
    /\ prev.base.k_ = 3
    /\ sys.base.k_ = 0
    /\ sys.base.count_ = 0

\* how many next() calls follow a reset() in the comparison with a new instance
MaxAfter == 2

\* what a client sees when it feeds us to s: output and getK() of each call,
\* then the rows of a dump; one element per outcome of the calls
RECURSIVE Observed(_, _, _)
Observed(s, us, seen) ==
    IF us = <<>>
    THEN {<<seen, bufferDump(s, "TSV").rows>>}
    ELSE UNION {Observed(r.s, Tail(us), Append(seen, <<r.y, getK(r.s)>>)) :
                  r \in next(s, Head(us))}

\* C8: after reset() a TransferFunctionSystem, StateSpaceSystem, PIDController
\* or ADConverter answers every input sequence as a newly constructed
\* instance with the same parameters does (for the PIDController, with the
\* gains it now has): same outputs, same step indices from 0, same dump rows.
C8_ResetLikeFresh ==
    (op = "reset" /\ sys.kind # "DAConverter") =>
        /\ getK(sys) = getK(FreshLike(sys, ctor))
        /\ bufferDump(sys, "TSV") = bufferDump(FreshLike(sys, ctor), "TSV")
        /\ \A us \in [1 .. MaxAfter -> InputSet] :
              Observed(sys, us, <<>>) = Observed(FreshLike(sys, ctor), us, <<>>)

\* a reset() of a TransferFunctionSystem that held a nonzero past output
C8_Witness ==
    /\ op = "reset"
    /\ sys.kind = "TransferFunctionSystem"
    /\ Len(prev.derived.yHist_) = 1
    /\ prev.derived.yHist_[1] # Zero
    /\ prev.base.k_ = 2

----------------------------------------------------------------------------
(* The contract of the constructors *)

\* C9: constructing any block with Ts <= 0 throws InvalidSamplingTime, and
\* with Ts > 0 and capacity 0 throws InvalidDimensions; no instance exists
\* afterwards.
C9_BaseValidation ==
    op = "ctor" =>
        /\ Leq0(ctor.Ts) => (ret = "InvalidSamplingTime" /\ sys = NoInstance)
        /\ (~Leq0(ctor.Ts) /\ ctor.bufferSize = 0) =>
              (ret = "InvalidDimensions" /\ sys = NoInstance)

\* a StateSpaceSystem with valid matrices refused for its capacity of 0
C9_Witness ==
    /\ op = "ctor"
    /\ ctor.kind = "StateSpaceSystem"
    /\ Len(ctor.A) = 2
    /\ ~Leq0(ctor.Ts)
    /\ ctor.bufferSize = 0
    /\ ret = "InvalidDimensions"
    /\ sys = NoInstance

\* C10: with a valid Ts and capacity, the TransferFunctionSystem constructor
\* throws InvalidCoefficients exactly when a is empty, b is empty or
\* a[0] == 0, and otherwise constructs the instance.
C10_CoefficientValidation ==
    (/\ op = "ctor"
     /\ ctor.kind = "TransferFunctionSystem"
     /\ ~Leq0(ctor.Ts)
     /\ ctor.bufferSize > 0) =>
        /\ ret = "InvalidCoefficients" <=>
              (Len(ctor.a) = 0 \/ Len(ctor.b) = 0 \/ IsZero(ctor.a[1]))
        /\ ret # "InvalidCoefficients" =>
              (ret = "none" /\ sys # NoInstance /\ sys.kind = "TransferFunctionSystem")

\* a denominator with a[0] == 0 and a numerator that is fine, refused
C10_Witness ==
    /\ op = "ctor"
    /\ ctor.kind = "TransferFunctionSystem"
    /\ ~Leq0(ctor.Ts)
    /\ ctor.bufferSize > 0
    /\ Len(ctor.b) = 1
    /\ Len(ctor.a) = 2
    /\ IsZero(ctor.a[1])
    /\ ret = "InvalidCoefficients"

\* C11: with a valid Ts and capacity, the StateSpaceSystem constructor throws
\* InvalidDimensions exactly when A has no row, a row of A is not of length
\* n = rows of A, len(B) # n or len(C) # n; otherwise it constructs the
\* instance with x of length n, all zeros.
C11_DimensionValidation ==
    (/\ op = "ctor"
     /\ ctor.kind = "StateSpaceSystem"
     /\ ~Leq0(ctor.Ts)
     /\ ctor.bufferSize > 0) =>
        LET n == Len(ctor.A)
        IN  /\ ret = "InvalidDimensions" <=>
                  \/ n = 0
                  \/ \E i \in 1 .. n : Len(ctor.A[i]) # n
                  \/ Len(ctor.B) # n
                  \/ Len(ctor.C) # n
            /\ ret # "InvalidDimensions" =>
                  /\ ret = "none"
                  /\ sys # NoInstance
                  /\ sys.kind = "StateSpaceSystem"
                  /\ Len(sys.derived.x_) = n
                  /\ \A i \in 1 .. n : sys.derived.x_[i] = Zero

\* an A of one row and two columns, with B and C of length one, refused
C11_Witness ==
    /\ op = "ctor"
    /\ ctor.kind = "StateSpaceSystem"
    /\ ~Leq0(ctor.Ts)
    /\ ctor.bufferSize > 0
    /\ Len(ctor.A) = 1
    /\ Len(ctor.A[1]) = 2
    /\ Len(ctor.B) = 1
    /\ Len(ctor.C) = 1
    /\ ret = "InvalidDimensions"
    /\ sys = NoInstance

----------------------------------------------------------------------------
(* Errors after construction *)

\* the exception types of the library
Exceptions == {"InvalidSamplingTime", "InvalidCoefficients", "InvalidDimensions"}

\* every subscript that next, reset and bufferDump would apply to s is within
\* the vector it is applied to
SubscriptsInRange(s) ==
    LET b == s.base
        d == s.derived
    IN  /\ b.bufferSize_ > 0
        /\ DOMAIN b.buffer_ = 0 .. b.bufferSize_ - 1
        /\ b.writeIndex_ \in DOMAIN b.buffer_
        /\ \A i \in 0 .. b.count_ - 1 :
              (b.writeIndex_ + i) % b.bufferSize_ \in DOMAIN b.buffer_
        /\ s.kind = "TransferFunctionSystem" =>
              /\ \A i \in 0 .. Len(d.b_) - 1 : i + 1 \in DOMAIN d.uHist_
              /\ \A j \in 1 .. Len(d.a_) - 1 : j \in DOMAIN d.yHist_
        /\ s.kind = "StateSpaceSystem" =>
              /\ \A i \in 1 .. d.n_ :
                    /\ i \in DOMAIN d.C_
                    /\ i \in DOMAIN d.x_
                    /\ i \in DOMAIN d.B_
                    /\ i \in DOMAIN d.A_
                    /\ \A j \in 1 .. d.n_ : j \in DOMAIN d.A_[i]

\* C12: errors are raised at construction only: on an instance, next, reset,
\* bufferDump and the PID setters return normally, and no subscript they use
\* on the ring buffer, the histories or the state vector is out of range.
C12_NoRuntimeError ==
    /\ sys # NoInstance => SubscriptsInRange(sys)
    /\ op \notin {"none", "ctor"} =>
          /\ sys # NoInstance
          /\ sys.kind = prev.kind
    /\ op = "next" => (Len(ret) = 2 /\ ret[1] \in Int /\ ret[2] \in Int /\ ret[2] > 0)
    /\ op \in {"reset", "setKp", "setKi", "setKd", "setGains"} =>
          (ret = "void" /\ ret \notin Exceptions)
    /\ op = "bufferDump" => Len(ret.rows) = sys.base.count_

\* a next() on a TransferFunctionSystem with one past output, its buffer full
C12_Witness ==
    /\ op = "next"
    /\ sys.kind = "TransferFunctionSystem"
    /\ Len(sys.derived.a_) = 2
    /\ prev.base.count_ = prev.base.bufferSize_
    /\ Len(hist) = MaxCalls

----------------------------------------------------------------------------
(* Runs of the three engines on given coefficients: the systems of the    *)
(* documented examples and one more of each kind, stepped with inputs     *)
(* that include 0.                                                        *)

Tenth == <<1, 10>>

\* inputs of next() in these runs
StepInputSet == {Zero, One, Third}
\* b = [1], a = [1, -0.5];  b = [4], a = [2, -1];  and a second-order denominator
StepTFArgs ==
    {[b |-> <<One>>, a |-> <<One, Neg(Half)>>],
     [b |-> <<Four>>, a |-> <<Two, MinusOne>>],
     [b |-> <<Four, Two>>, a |-> <<Two, MinusOne, One>>]}
\* A = [[0.5]], B = [0], C = [1], D = 0;  and a system of two states
StepSSArgs ==
    {[A |-> <<<<Half>>>>, B |-> <<Zero>>, C |-> <<One>>, D |-> Zero],
     [A |-> <<<<Zero, One>>, <<MinusOne, Half>>>>, B |-> <<One, One>>,
      C |-> <<One, Two>>, D |-> One]}
\* Kp = 1, Ki = 0, Kd = 0;  Kp = 2, Ki = 0, Kd = 0;  and all three gains set
StepPIDArgs ==
    {[Kp |-> One, Ki |-> Zero, Kd |-> Zero],
     [Kp |-> Two, Ki |-> Zero, Kd |-> Zero],
     [Kp |-> One, Ki |-> Half, Kd |-> Tenth]}

StepTransferFunctionSystem ==
    \E c \in StepTFArgs :
        Constructed([kind |-> "TransferFunctionSystem", b |-> c.b, a |-> c.a,
                     Ts |-> Tenth, bufferSize |-> MaxCap],
                    TransferFunctionSystem(c.b, c.a, Tenth, MaxCap))

StepStateSpaceSystem ==
    \E m \in StepSSArgs :
        Constructed([kind |-> "StateSpaceSystem", A |-> m.A, B |-> m.B, C |-> m.C,
                     D |-> m.D, Ts |-> Tenth, bufferSize |-> MaxCap],
                    StateSpaceSystem(m.A, m.B, m.C, m.D, Tenth, MaxCap))

StepPIDController ==
    \E g \in StepPIDArgs :
        Constructed([kind |-> "PIDController", Kp |-> g.Kp, Ki |-> g.Ki, Kd |-> g.Kd,
                     Ts |-> Tenth, bufferSize |-> MaxCap],
                    PIDController(g.Kp, g.Ki, g.Kd, Tenth, MaxCap))

\* sys.next(uk) with uk among the step inputs
CallNextStep ==
    /\ sys # NoInstance
    /\ Len(hist) < MaxCalls
    /\ \E uk \in StepInputSet :
         \E r \in next(sys, uk) :
            /\ sys' = r.s
            /\ op' = "next"
            /\ arg' = uk
            /\ ret' = r.y
            /\ hist' = Append(hist, <<uk, r.y>>)
    /\ prev' = sys
    /\ UNCHANGED <<ctor, tunes>>

NextStep ==
    \/ StepTransferFunctionSystem
    \/ StepStateSpaceSystem
    \/ StepPIDController
    \/ CallNextStep
    \/ CallReset

SpecStep == Init /\ [][NextStep]_vars

----------------------------------------------------------------------------
(* The transfer-function engine *)

IsTF == sys # NoInstance /\ sys.kind = "TransferFunctionSystem"

\* C13: the stored denominator of a TransferFunctionSystem has a_[0] == 1, the
\* stored coefficients are the raw ones divided by the raw a[0], and the
\* stored lengths are the raw lengths; a = [2, -1], b = [4] is stored as
\* a_ = [1, -0.5], b_ = [2].
C13_Normalisation ==
    IsTF =>
        LET d == sys.derived
        IN  /\ Len(d.a_) = Len(ctor.a)
            /\ Len(d.b_) = Len(ctor.b)
            /\ d.a_[1] = One
            /\ \A i \in 1 .. Len(ctor.a) : d.a_[i] = Div(ctor.a[i], ctor.a[1])
            /\ \A i \in 1 .. Len(ctor.b) : d.b_[i] = Div(ctor.b[i], ctor.a[1])
            /\ (ctor.a = <<Two, MinusOne>> /\ ctor.b = <<Four>>) =>
                  (d.a_ = <<One, <<-1, 2>>>> /\ d.b_ = <<Two>>)

\* a = [2, -1], b = [4] just constructed
C13_Witness ==
    /\ op = "ctor"
    /\ IsTF
    /\ ctor.a = <<Two, MinusOne>>
    /\ ctor.b = <<Four>>
    /\ sys.derived.a_[2] = <<-1, 2>>
    /\ sys.derived.b_[1] = <<2, 1>>

\* the sum of a sequence of numbers
RECURSIVE SumSeq(_)
SumSeq(terms) == IF terms = <<>> THEN Zero ELSE Add(Head(terms), SumSeq(Tail(terms)))

\* u(i) and y(i) of the calls in h, numbered from 0; zero before the first
InputAt(h, i) == IF i >= 0 THEN h[i + 1][1] ELSE Zero
OutputAt(h, i) == IF i >= 0 THEN h[i + 1][2] ELSE Zero

\* sum_{i=0..m} b_[i] u(k-i) - sum_{j=1..n} a_[j] y(k-j)
DifferenceEquation(b_, a_, h, k) ==
    Sub(SumSeq([i \in 1 .. Len(b_) |-> Mul(b_[i], InputAt(h, k - (i - 1)))]),
        SumSeq([j \in 1 .. Len(a_) - 1 |-> Mul(a_[j + 1], OutputAt(h, k - j))]))

\* C14: the k-th output of a new or reset TransferFunctionSystem is
\* sum_i b_[i] u(k-i) - sum_j a_[j] y(k-j) with u and y zero before step 0;
\* b = [1], a = [1, -0.5] driven by the constant 1 gives 1, 1.5, 1.75.
C14_DifferenceEquation ==
    IsTF =>
        /\ \A k \in 0 .. Len(hist) - 1 :
              OutputAt(hist, k) =
                  DifferenceEquation(sys.derived.b_, sys.derived.a_, hist, k)
        /\ (/\ ctor.b = <<One>>
            /\ ctor.a = <<One, Neg(Half)>>
            /\ \A k \in 0 .. Len(hist) - 1 : InputAt(hist, k) = One) =>
              \A k \in 0 .. Len(hist) - 1 :
                  /\ k = 0 => OutputAt(hist, k) = <<1, 1>>
                  /\ k = 1 => OutputAt(hist, k) = <<3, 2>>
                  /\ k = 2 => OutputAt(hist, k) = <<7, 4>>

\* the third step of b = [1], a = [1, -0.5] under the constant input 1
C14_Witness ==
    /\ op = "next"
    /\ IsTF
    /\ ctor.b = <<One>>
    /\ ctor.a = <<One, Neg(Half)>>
    /\ Len(hist) = 3
    /\ \A k \in 0 .. 2 : InputAt(hist, k) = One
    /\ ret = <<7, 4>>

----------------------------------------------------------------------------
(* The state-space engine *)

IsSS == sys # NoInstance /\ sys.kind = "StateSpaceSystem"

\* C15: next(u) of a StateSpaceSystem returns y = sum_i C[i] x[i] + D u from
\* the x held before the call, and leaves x'[i] = sum_j A[i][j] x[j] + B[i] u
\* with every x[j] the value before the call.
C15_OutputBeforeUpdate ==
    (op = "next" /\ IsSS) =>
        LET d == prev.derived
            n == d.n_
            x == d.x_
        IN  /\ ret = Add(SumSeq([i \in 1 .. n |-> Mul(d.C_[i], x[i])]), Mul(d.D_, arg))
            /\ Len(sys.derived.x_) = n
            /\ \A i \in 1 .. n :
                  sys.derived.x_[i] =
                      Add(SumSeq([j \in 1 .. n |-> Mul(d.A_[i][j], x[j])]),
                          Mul(d.B_[i], arg))
            /\ sys.derived.A_ = d.A_
            /\ sys.derived.B_ = d.B_
            /\ sys.derived.C_ = d.C_
            /\ sys.derived.D_ = d.D_
            /\ sys.derived.n_ = n

\* a step of the two-state system from a state whose components differ and
\* whose first component changes
C15_Witness ==
    /\ op = "next"
    /\ IsSS
    /\ prev.derived.n_ = 2
    /\ prev.derived.x_[1] # Zero
    /\ prev.derived.x_[1] # prev.derived.x_[2]
    /\ sys.derived.x_[1] # prev.derived.x_[1]

\* C16: zero is a fixed point: a StateSpaceSystem in the zero state (new or
\* reset) that is stepped with input 0 only returns 0 every time and keeps
\* every component of x at 0 (A = [[0.5]], B = [0], C = [1], D = 0 included).
C16_ZeroFixedPoint ==
    (IsSS /\ \A k \in 0 .. Len(hist) - 1 : InputAt(hist, k) = Zero) =>
        /\ \A k \in 0 .. Len(hist) - 1 : OutputAt(hist, k) = Zero
        /\ \A i \in 1 .. sys.derived.n_ : sys.derived.x_[i] = Zero
        /\ op = "next" => ret = Zero

\* the third next(0) of A = [[0.5]], B = [0], C = [1], D = 0
C16_Witness ==
    /\ op = "next"
    /\ IsSS
    /\ ctor.A = <<<<Half>>>>
    /\ ctor.B = <<Zero>>
    /\ ctor.C = <<One>>
    /\ ctor.D = Zero
    /\ Len(hist) = 3
    /\ \A k \in 0 .. 2 : InputAt(hist, k) = Zero
    /\ ret = Zero

----------------------------------------------------------------------------
(* The PID controller *)

OnPID == sys # NoInstance /\ sys.kind = "PIDController"

\* C17: next(e) of a PIDController returns u = u_k1 + a0 e + a1 e_k1 + a2 e_k2
\* from the values held before the call and leaves e_k2 = old e_k1, e_k1 = e,
\* u_k1 = u; so e_k1 and e_k2 are the last two errors and u_k1 the last
\* output since construction or reset, zero where there is none.
C17_VelocityForm ==
    /\ (op = "next" /\ OnPID) =>
          LET d == prev.derived
          IN  /\ ret = Add(d.u_k1_, Add(Add(Mul(d.a0_, arg), Mul(d.a1_, d.e_k1_)),
                                        Mul(d.a2_, d.e_k2_)))
              /\ sys.derived.e_k2_ = d.e_k1_
              /\ sys.derived.e_k1_ = arg
              /\ sys.derived.u_k1_ = ret
    /\ OnPID =>
          /\ sys.derived.e_k1_ = InputAt(hist, Len(hist) - 1)
          /\ sys.derived.e_k2_ = InputAt(hist, Len(hist) - 2)
          /\ sys.derived.u_k1_ = OutputAt(hist, Len(hist) - 1)

\* the third step of a retuned controller whose last two errors differ
C17_Witness ==
    /\ op = "next"
    /\ OnPID
    /\ tunes = 1
    /\ Len(hist) = 3
    /\ prev.derived.e_k1_ # prev.derived.e_k2_
    /\ sys.derived.e_k2_ = prev.derived.e_k1_
    /\ sys.derived.e_k2_ # sys.derived.e_k1_

C19_CoefficientsFollowGains ==
    OnPID =>
        LET d == sys.derived
            Ts == getSamplingTime(sys)
        IN  /\ d.a0_ = Add(Add(d.Kp_, Mul(d.Ki_, Ts)), Div(d.Kd_, Ts))
            /\ d.a1_ = Sub(Neg(d.Kp_), Div(Mul(Two, d.Kd_), Ts))
            /\ d.a2_ = Div(d.Kd_, Ts)

\* setKd(2) on a controller built with Kd = 1 and Ts = 0.5
C19_Witness ==
    /\ op = "setKd"
    /\ OnPID
    /\ prev.derived.Kd_ = One
    /\ sys.derived.Kd_ = Two
    /\ sys.derived.a2_ = Four
    /\ sys.derived.a2_ # prev.derived.a2_

\* C20: setKp, setKi, setKd and setGains set the gains they name and the
\* coefficients, and nothing else: e_k1, e_k2, u_k1, k_, writeIndex_, count_
\* and every sample of the buffer are as before the call.
C20_SettersKeepHistory ==
    (op \in {"setKp", "setKi", "setKd", "setGains"}) =>
        /\ OnPID
        /\ sys.kind = prev.kind
        /\ sys.base = prev.base
        /\ sys.derived.e_k1_ = prev.derived.e_k1_
        /\ sys.derived.e_k2_ = prev.derived.e_k2_
        /\ sys.derived.u_k1_ = prev.derived.u_k1_
        /\ sys.derived.Kp_ = IF op = "setKp" THEN arg
                             ELSE IF op = "setGains" THEN arg[1] ELSE prev.derived.Kp_
        /\ sys.derived.Ki_ = IF op = "setKi" THEN arg
                             ELSE IF op = "setGains" THEN arg[2] ELSE prev.derived.Ki_
        /\ sys.derived.Kd_ = IF op = "setKd" THEN arg
                             ELSE IF op = "setGains" THEN arg[3] ELSE prev.derived.Kd_

\* setGains on a controller that has stepped twice and holds nonzero history
C20_Witness ==
    /\ op = "setGains"
    /\ prev.base.k_ = 2
    /\ prev.base.count_ = 2
    /\ prev.derived.e_k1_ # Zero
    /\ prev.derived.e_k2_ # Zero
    /\ prev.derived.u_k1_ # Zero
    /\ sys.derived.a0_ # prev.derived.a0_


----------------------------------------------------------------------------
(* What each operation leaves alone *)

\* the model parameters of an instance: the coefficients of a transfer
\* function, the matrices of a state-space model, the gains and the derived
\* coefficients of a controller
Parameters(s) ==
    CASE s.kind = "TransferFunctionSystem" -> <<s.derived.b_, s.derived.a_>>
      [] s.kind = "StateSpaceSystem" ->
             <<s.derived.A_, s.derived.B_, s.derived.C_, s.derived.D_>>
      [] s.kind = "PIDController" ->
             <<s.derived.Kp_, s.derived.Ki_, s.derived.Kd_,
               s.derived.a0_, s.derived.a1_, s.derived.a2_>>
      [] OTHER -> <<>>

\* C21: reset clears the transient state and keeps the model parameters: both
\* histories of a TransferFunctionSystem become all zero and a_, b_ stay; x
\* of a StateSpaceSystem becomes all zero and A, B, C, D stay; e_k1, e_k2,
\* u_k1 of a PIDController become 0 and Kp, Ki, Kd, a0, a1, a2 stay.  next and
\* bufferDump keep the parameters too.
C21_ResetKeepsParameters ==
    /\ (op \in {"reset", "next", "bufferDump"}) =>
          /\ sys.kind = prev.kind
          /\ Parameters(sys) = Parameters(prev)
    /\ (op = "reset" /\ IsTF) =>
          /\ sys.derived.uHist_ = Zeros(Len(prev.derived.uHist_))
          /\ sys.derived.yHist_ = Zeros(Len(prev.derived.yHist_))
    /\ (op = "reset" /\ IsSS) =>
          sys.derived.x_ = Zeros(Len(prev.derived.x_))
    /\ (op = "reset" /\ OnPID) =>
          /\ sys.derived.e_k1_ = Zero
          /\ sys.derived.e_k2_ = Zero
          /\ sys.derived.u_k1_ = Zero

\* reset of a retuned controller that holds nonzero errors and output
C21_Witness ==
    /\ op = "reset"
    /\ OnPID
    /\ tunes = 1
    /\ prev.derived.e_k1_ # Zero
    /\ prev.derived.e_k2_ # Zero
    /\ prev.derived.u_k1_ # Zero
    /\ sys.derived.a0_ # Zero

\* C22: bufferDump, in either format, is read-only: k_, writeIndex_, count_,
\* every sample of the ring buffer and the state of the subtype are after
\* the call what they were before it, so whatever is called next returns
\* what it would have returned without the dump.
C22_DumpReadOnly ==
    (op = "bufferDump") =>
        /\ sys.kind = prev.kind
        /\ sys.base.k_ = prev.base.k_
        /\ sys.base.writeIndex_ = prev.base.writeIndex_
        /\ sys.base.count_ = prev.base.count_
        /\ \A i \in DOMAIN prev.base.buffer_ :
              sys.base.buffer_[i] = prev.base.buffer_[i]
        /\ sys.derived = prev.derived
        /\ \A uk \in InputSet : next(sys, uk) = next(prev, uk)

\* a MATLAB dump of a wrapped buffer of a controller that holds nonzero history
C22_Witness ==
    /\ op = "bufferDump"
    /\ arg = "MATLAB"
    /\ OnPID
    /\ sys.base.count_ = sys.base.bufferSize_
    /\ sys.base.k_ > sys.base.bufferSize_
    /\ sys.derived.u_k1_ # Zero
    /\ Len(ret.rows) = sys.base.count_

\* C23: the sampling period and the capacity of a DiscreteSystem are those
\* given to the constructor whatever next, reset, bufferDump and PID setter
\* calls came since, and the buffer keeps bufferSize_ slots, through reset
\* too.
C23_PeriodAndCapacityFixed ==
    /\ sys # NoInstance =>
          /\ sys.base.Ts_ = ctor.Ts
          /\ sys.base.bufferSize_ = ctor.bufferSize
          /\ DOMAIN sys.base.buffer_ = 0 .. ctor.bufferSize - 1
    /\ (op \in {"next", "reset", "bufferDump", "setKp", "setKi", "setKd", "setGains"}) =>
          /\ sys.base.Ts_ = prev.base.Ts_
          /\ sys.base.bufferSize_ = prev.base.bufferSize_
          /\ DOMAIN sys.base.buffer_ = DOMAIN prev.base.buffer_

\* reset of a retuned controller whose two-slot buffer was full
C23_Witness ==
    /\ op = "reset"
    /\ OnPID
    /\ tunes = 1
    /\ prev.base.count_ = 2
    /\ prev.base.k_ > 2
    /\ sys.base.bufferSize_ = 2
    /\ sys.base.count_ = 0

----------------------------------------------------------------------------
(* The converters *)

IsADC == sys # NoInstance /\ sys.kind = "ADConverter"
IsDAC == sys # NoInstance /\ sys.kind = "DAConverter"

\* C25: the ADConverter is a one-sample delay: counting from construction or
\* reset, step 0 returns 0 and step k >= 1 returns the input of step k - 1,
\* and the sample stored for step k is {in(k), in(k-1), k}.  The DAConverter
\* returns its input at every step.
C25_DelayAndPassthrough ==
    /\ IsADC =>
          /\ \A k \in 0 .. Len(hist) - 1 : OutputAt(hist, k) = InputAt(hist, k - 1)
          /\ Len(hist) > 0 => OutputAt(hist, 0) = Zero
    /\ (IsADC /\ op = "next") =>
          LET k == Len(hist) - 1
          IN  /\ ret = InputAt(hist, k - 1)
              /\ sys.base.buffer_[prev.base.writeIndex_] =
                     [in |-> InputAt(hist, k), out |-> InputAt(hist, k - 1), k |-> k]
    /\ IsDAC =>
          \A k \in 0 .. Len(hist) - 1 : OutputAt(hist, k) = InputAt(hist, k)
    /\ (IsDAC /\ op = "next") => ret = arg

\* the third step of an ADConverter whose last two inputs differ
C25_Witness ==
    /\ IsADC
    /\ op = "next"
    /\ Len(hist) = 3
    /\ InputAt(hist, 1) # InputAt(hist, 2)
    /\ ret = InputAt(hist, 1)
    /\ ret # arg
    /\ OutputAt(hist, 0) = Zero

----------------------------------------------------------------------------
(* The stored samples *)

\* the slot that holds the j-th newest sample (j = 0 for the newest)
SlotOf(b, j) == (b.writeIndex_ - 1 - j + (j + 1) * b.bufferSize_) % b.bufferSize_

\* C26: a stored sample does not change until its slot is written again by
\* wrap-around or cleared by reset: next writes the slot writeIndex_ and no
\* other, bufferDump and the setters write none, reset sets every slot to
\* the default sample, and each of the count_ newest samples is still the
\* {in, out, k} of the step that stored it.
C26_StoredSamplesFixed ==
    /\ (op = "next") =>
          /\ \A i \in DOMAIN prev.base.buffer_ :
                i # prev.base.writeIndex_ =>
                    sys.base.buffer_[i] = prev.base.buffer_[i]
          /\ sys.base.buffer_[prev.base.writeIndex_] =
                 [in |-> arg, out |-> ret, k |-> prev.base.k_]
    /\ (op \in {"bufferDump", "setKp", "setKi", "setKd", "setGains"}) =>
          sys.base.buffer_ = prev.base.buffer_
    /\ (op = "reset") =>
          \A i \in DOMAIN sys.base.buffer_ : sys.base.buffer_[i] = DefaultSample
    /\ sys # NoInstance =>
          \A j \in 0 .. sys.base.count_ - 1 :
              LET step == Len(hist) - 1 - j
              IN  sys.base.buffer_[SlotOf(sys.base, j)] =
                      [in |-> InputAt(hist, step), out |-> OutputAt(hist, step),
                       k |-> step]

\* the third next on a two-slot buffer, after a retuning: the slot of step 0
\* is overwritten and the sample of step 1 is as it was stored
C26_Witness ==
    /\ op = "next"
    /\ OnPID
    /\ tunes = 1
    /\ Len(hist) = 3
    /\ sys.base.bufferSize_ = 2
    /\ prev.base.count_ = 2
    /\ prev.base.buffer_[prev.base.writeIndex_].k = 0
    /\ sys.base.buffer_[prev.base.writeIndex_].k = 2
    /\ sys.base.buffer_[SlotOf(sys.base, 1)] =
           [in |-> InputAt(hist, 1), out |-> OutputAt(hist, 1), k |-> 1]

----------------------------------------------------------------------------
(* Retuning between two steps *)

\* a0 e + a1 e_k1 + a2 e_k2
Increment(a0, a1, a2, e, e_k1, e_k2) ==
    Add(Add(Mul(a0, e), Mul(a1, e_k1)), Mul(a2, e_k2))

\* C30: right after a setter call, next(e) returns the u_k1 held before the
\* setter plus a0' e + a1' e_k1 + a2' e_k2 with the e_k1, e_k2 held before
\* the setter and the coefficients a0', a1', a2' of the new gains; it
\* differs from what next(e) would have returned without the setter by
\* (a0' - a0) e + (a1' - a1) e_k1 + (a2' - a2) e_k2.
C30_RetunedStep ==
    (op \in {"setKp", "setKi", "setKd", "setGains"}) =>
        LET old == prev.derived
            new == sys.derived
            Ts == getSamplingTime(sys)
            a0 == Add(Add(new.Kp_, Mul(new.Ki_, Ts)), Div(new.Kd_, Ts))
            a1 == Sub(Neg(new.Kp_), Div(Mul(Two, new.Kd_), Ts))
            a2 == Div(new.Kd_, Ts)
        IN  \A e \in InputSet :
                /\ \A r \in next(sys, e) :
                      r.y = Add(old.u_k1_,
                                Increment(a0, a1, a2, e, old.e_k1_, old.e_k2_))
                /\ \A r \in next(sys, e), r0 \in next(prev, e) :
                      Sub(r.y, r0.y) =
                          Increment(Sub(a0, old.a0_), Sub(a1, old.a1_),
                                    Sub(a2, old.a2_), e, old.e_k1_, old.e_k2_)

\* setKp after two steps: the histories are nonzero and the next output is
\* not the one the old gains would give
C30_Witness ==
    /\ op = "setKp"
    /\ OnPID
    /\ sys.base.k_ = 2
    /\ prev.derived.e_k1_ # Zero
    /\ prev.derived.e_k2_ # Zero
    /\ prev.derived.u_k1_ # Zero
    /\ sys.derived.Kp_ # prev.derived.Kp_
    /\ \E e \in InputSet : \E r \in next(sys, e), r0 \in next(prev, e) : r.y # r0.y

----------------------------------------------------------------------------
(* RefSignal: the reference signals.  Here the time of a sample is reached  *)
(* two ways, by adding Ts_ step after step and by one product k * Ts_, so   *)
(* the rounding of double arithmetic is kept: every result is rounded to    *)
(* the nearest number of SignificandBits significant bits, ties to even.    *)

\* significant bits of a double in this part of the model (53 in the program)
SignificandBits == 3

\* next() calls on a signal explored since construction or the last reset
MaxSignalCalls == 7

\* n/d (n, d > 0) rounded to SignificandBits significant bits
RECURSIVE FlScale(_, _)
FlScale(n, d) ==
    IF n >= (2 ^ SignificandBits) * d THEN Mul(Two, FlScale(n, 2 * d))
    ELSE IF n < (2 ^ (SignificandBits - 1)) * d THEN Div(FlScale(2 * n, d), Two)
    ELSE Q(RoundHalfEven(n, d), 1)

\* the double nearest to the rational x
Fl(x) ==
    IF x[1] = 0 THEN Zero
    ELSE IF x[1] > 0 THEN FlScale(x[1], x[2])
    ELSE Neg(FlScale(-x[1], x[2]))

\* x + y, x - y, x * y on doubles
FAdd(x, y) == Fl(Add(x, y))
FSub(x, y) == Fl(Sub(x, y))
FMul(x, y) == Fl(Mul(x, y))

\* x < y
Less(x, y) == x[1] * y[2] < y[1] * x[2]

\* Signal::Signal: the base subobject, or the exception
Signal(Ts, offset, buffer_size) ==
    IF Leq0(Ts) THEN Throw("invalid_argument")
    ELSE IF buffer_size = 0 THEN Throw("invalid_argument")
    ELSE [thrown |-> "none",
          obj |-> [Ts_ |-> Ts, offset_ |-> offset, t_ |-> Zero,
                   buffer_size_ |-> buffer_size,
                   time_buffer_ |-> <<>>, value_buffer_ |-> <<>>]]

\* StepSignal::StepSignal
StepSignal(Ts, amplitude, step_time, offset, buffer_size) ==
    LET base == Signal(Ts, offset, buffer_size)
    IN  IF base.thrown # "none" THEN Throw(base.thrown)
        ELSE [thrown |-> "none",
              obj |-> [kind |-> "StepSignal", base |-> base.obj,
                       derived |-> [amplitude_ |-> amplitude,
                                    step_time_ |-> step_time]]]

\* RampSignal::RampSignal
RampSignal(Ts, slope, start_time, offset, buffer_size) ==
    LET base == Signal(Ts, offset, buffer_size)
    IN  IF base.thrown # "none" THEN Throw(base.thrown)
        ELSE [thrown |-> "none",
              obj |-> [kind |-> "RampSignal", base |-> base.obj,
                       derived |-> [slope_ |-> slope, start_time_ |-> start_time]]]

\* StepSignal::computeAt
StepSignal_computeAt(s, time) ==
    IF ~Less(time, s.derived.step_time_)
    THEN FAdd(s.derived.amplitude_, s.base.offset_)
    ELSE s.base.offset_

\* RampSignal::computeAt
RampSignal_computeAt(s, time) ==
    IF Less(time, s.derived.start_time_) THEN s.base.offset_
    ELSE FAdd(FMul(s.derived.slope_, FSub(time, s.derived.start_time_)),
              s.base.offset_)

\* virtual double computeAt(double) const: dispatch on the dynamic type
computeAt(s, time) ==
    CASE s.kind = "StepSignal" -> StepSignal_computeAt(s, time)
      [] s.kind = "RampSignal" -> RampSignal_computeAt(s, time)

\* Signal::compute() const
Signal_compute(s) == computeAt(s, s.base.t_)

\* Signal::compute(std::size_t k) const
Signal_compute_k(s, k) == computeAt(s, FMul(Fl(<<k, 1>>), s.base.Ts_))

\* Signal::addToBuffer, on the base subobject
addToBuffer(b, time, value) ==
    LET full == Len(b.time_buffer_) >= b.buffer_size_
    IN  [b EXCEPT !.time_buffer_ = Append(IF full THEN Tail(@) ELSE @, time),
                  !.value_buffer_ = Append(IF full THEN Tail(@) ELSE @, value)]

\* next advancing the time before it computes the value
Signal_next_AdvancesFirst(s) ==
    LET advanced == [s EXCEPT !.base = [@ EXCEPT !.t_ = FAdd(@, s.base.Ts_)]]
        value == Signal_compute(advanced)
    IN  [y |-> value,
         s |-> [advanced EXCEPT
                   !.base = addToBuffer(advanced.base, advanced.base.t_, value)]]

\* Signal::next: the value returned and the signal it leaves
Signal_next(s) ==
    LET value == Signal_compute(s)
        stored == addToBuffer(s.base, s.base.t_, value)
    IN  [y |-> value,
         s |-> [s EXCEPT !.base = [stored EXCEPT !.t_ = FAdd(@, s.base.Ts_)]]]

\* Signal::reset
Signal_reset(s) ==
    [s EXCEPT !.base = [@ EXCEPT !.t_ = Zero, !.time_buffer_ = <<>>,
                                 !.value_buffer_ = <<>>]]

\* s.bufferSize() = n: a write through the reference the accessor returns
Signal_bufferSize(s, n) == [s EXCEPT !.base = [@ EXCEPT !.buffer_size_ = n]]

----------------------------------------------------------------------------
(* The calls a client makes on a reference signal *)

ThreeQuarters == <<3, 4>>
ThreeHalves == <<3, 2>>
Five == <<5, 1>>

\* sampling periods, offsets and capacities given to the constructors
SignalTsSet == {Zero, ThreeQuarters}
OffsetSet == {Zero, One}
\* amplitude and step time of a StepSignal, slope and start time of a RampSignal
StepArgs == {[amplitude |-> Two, step_time |-> Five]}
RampArgs == {[slope |-> Two, start_time |-> ThreeHalves]}
\* values written through bufferSize()
BufferSizeSet == 1 .. MaxCap

NewStepSignal ==
    \E c \in StepArgs, Ts \in SignalTsSet, offset \in OffsetSet, buffer_size \in CapSet :
        Constructed([kind |-> "StepSignal", Ts |-> Ts, offset |-> offset,
                     buffer_size |-> buffer_size, amplitude |-> c.amplitude,
                     step_time |-> c.step_time],
                    StepSignal(Ts, c.amplitude, c.step_time, offset, buffer_size))

NewRampSignal ==
    \E c \in RampArgs, Ts \in SignalTsSet, offset \in OffsetSet, buffer_size \in CapSet :
        Constructed([kind |-> "RampSignal", Ts |-> Ts, offset |-> offset,
                     buffer_size |-> buffer_size, slope |-> c.slope,
                     start_time |-> c.start_time],
                    RampSignal(Ts, c.slope, c.start_time, offset, buffer_size))

\* sys.next(); hist records the time and the value of each sample
CallSignalNext ==
    /\ sys # NoInstance
    /\ Len(hist) < MaxSignalCalls
    /\ LET r == Signal_next(sys)
       IN  /\ sys' = r.s
           /\ ret' = r.y
           /\ hist' = Append(hist, <<sys.base.t_, r.y>>)
    /\ op' = "next"
    /\ arg' = <<>>
    /\ prev' = sys
    /\ UNCHANGED <<ctor, tunes>>

\* sys.reset()
CallSignalReset ==
    /\ sys # NoInstance
    /\ sys' = Signal_reset(sys)
    /\ op' = "reset"
    /\ arg' = <<>>
    /\ ret' = "void"
    /\ prev' = sys
    /\ hist' = <<>>
    /\ UNCHANGED <<ctor, tunes>>

\* sys.compute()
CallSignalCompute ==
    /\ sys # NoInstance
    /\ op' = "compute"
    /\ arg' = <<>>
    /\ ret' = Signal_compute(sys)
    /\ prev' = sys
    /\ UNCHANGED <<sys, ctor, hist, tunes>>

\* sys.compute(k)
CallSignalComputeK ==
    /\ sys # NoInstance
    /\ \E k \in 0 .. MaxSignalCalls :
         /\ arg' = k
         /\ ret' = Signal_compute_k(sys, k)
    /\ op' = "compute_k"
    /\ prev' = sys
    /\ UNCHANGED <<sys, ctor, hist, tunes>>

\* sys.bufferSize() = n
CallSignalBufferSize ==
    /\ sys # NoInstance
    /\ tunes < MaxTunes
    /\ \E n \in BufferSizeSet :
         /\ sys' = Signal_bufferSize(sys, n)
         /\ arg' = n
    /\ op' = "bufferSize"
    /\ ret' = "void"
    /\ prev' = sys
    /\ tunes' = tunes + 1
    /\ UNCHANGED <<ctor, hist>>

NextSignal ==
    \/ NewStepSignal
    \/ NewRampSignal
    \/ CallSignalNext
    \/ CallSignalReset
    \/ CallSignalCompute
    \/ CallSignalComputeK
    \/ CallSignalBufferSize

SpecSignal == Init /\ [][NextSignal]_vars

IsSignal == sys # NoInstance /\ sys.kind \in {"StepSignal", "RampSignal"}

\* C27: the time and value buffers of a Signal have the same length and hold
\* at most buffer_size_ pairs after any sequence of next(), reset() and
\* accessor uses, writes through bufferSize() included; next() on full
\* buffers drops the oldest pair and appends the new one.
C27_BuffersBounded ==
    /\ IsSignal =>
          /\ Len(sys.base.time_buffer_) = Len(sys.base.value_buffer_)
          /\ Len(sys.base.time_buffer_) <= sys.base.buffer_size_
    /\ (IsSignal /\ op = "next"
          /\ Len(prev.base.time_buffer_) >= prev.base.buffer_size_) =>
          /\ sys.base.time_buffer_ =
                 Append(Tail(prev.base.time_buffer_), prev.base.t_)
          /\ sys.base.value_buffer_ = Append(Tail(prev.base.value_buffer_), ret)

\* the time after k additions of Ts to 0, each rounded
RECURSIVE TimeAfter(_, _)
TimeAfter(Ts, k) == IF k = 0 THEN Zero ELSE FAdd(TimeAfter(Ts, k - 1), Ts)

\* what C28 says of next() in every case: the value of the current time is
\* computed, (t, value) is appended to the buffers, t advances by Ts, and
\* the value computed before is returned; compute() and compute(k) leave
\* the signal as it was
NextSamplesThenAdvances ==
    /\ (IsSignal /\ op = "next") =>
          /\ ret = computeAt(prev, prev.base.t_)
          /\ Len(sys.base.time_buffer_) > 0
          /\ sys.base.time_buffer_[Len(sys.base.time_buffer_)] = prev.base.t_
          /\ sys.base.value_buffer_[Len(sys.base.value_buffer_)] = ret
          /\ sys.base.t_ = FAdd(prev.base.t_, prev.base.Ts_)
          /\ prev.base.t_ = TimeAfter(prev.base.Ts_, Len(hist) - 1)
    /\ (IsSignal /\ op \in {"compute", "compute_k"}) => sys = prev
    /\ (IsSignal /\ op = "compute") => ret = computeAt(sys, sys.base.t_)

\* C28 as stated: moreover the k-th next() since construction or reset
\* (k from 0) samples the time k * Ts and returns what compute(k) returns.
C28_NextIsComputeK ==
    /\ NextSamplesThenAdvances
    /\ (IsSignal /\ op = "next") =>
          LET k == Len(hist) - 1
          IN  /\ prev.base.t_ = FMul(Fl(<<k, 1>>), prev.base.Ts_)
              /\ ret = Signal_compute_k(prev, k)

\* C28 amended: the k-th next() samples the time reached by k rounded
\* additions of Ts, and returns what compute(k) returns whenever that time
\* is the rounded product k * Ts.
C28_NextIsComputeAtSum ==
    /\ NextSamplesThenAdvances
    /\ (IsSignal /\ op = "next") =>
          LET k == Len(hist) - 1
          IN  (TimeAfter(prev.base.Ts_, k) = FMul(Fl(<<k, 1>>), prev.base.Ts_)) =>
                  ret = Signal_compute_k(prev, k)

\* the step k = 5 of a StepSignal: sum and product are both 4 after
\* rounding, and next() returns what compute(5) returns
C28_Witness ==
    /\ IsSignal
    /\ sys.kind = "StepSignal"
    /\ op = "next"
    /\ Len(hist) = 6
    /\ prev.base.t_ = <<4, 1>>
    /\ prev.base.t_ = FMul(Fl(<<5, 1>>), prev.base.Ts_)
    /\ Mul(<<5, 1>>, prev.base.Ts_) # prev.base.t_
    /\ ret = Signal_compute_k(prev, 5)
    /\ sys.base.t_ = Five

\* the value of signal s at a time, with the value before the step or the
\* start of the ramp given as early
ValueAt(s, time, early) ==
    CASE s.kind = "StepSignal" ->
             IF Less(time, s.derived.step_time_) THEN early
             ELSE FAdd(s.derived.amplitude_, s.base.offset_)
      [] s.kind = "RampSignal" ->
             IF Less(time, s.derived.start_time_) THEN early
             ELSE FAdd(FMul(s.derived.slope_, FSub(time, s.derived.start_time_)),
                       s.base.offset_)

\* C29: a RampSignal is 0 at every time before start_time and
\* slope * (time - start_time) plus the offset from there on, whatever the
\* offset; a StepSignal is 0 before step_time.  Seen through compute(k) and
\* next().
C29_ZeroBeforeStart ==
    /\ (IsSignal /\ op = "compute_k") =>
          ret = ValueAt(sys, FMul(Fl(<<arg, 1>>), sys.base.Ts_), Zero)
    /\ (IsSignal /\ op \in {"next", "compute"}) =>
          ret = ValueAt(prev, prev.base.t_, Zero)

----------------------------------------------------------------------------
(* Two instances side by side.  Here sys, ctor and hist are pairs: the two  *)
(* instances, the arguments they were built with, and for each instance the *)
(* calls made on it so far as <<name, argument, result>>.                   *)

\* calls explored on the two instances together
MaxPairOps == 3

\* the constructor calls of the two instances
PairArgs ==
    {[kind |-> "StateSpaceSystem", A |-> <<<<Zero, One>>, <<MinusOne, Half>>>>,
      B |-> <<Zero, One>>, C |-> <<One, Zero>>, D |-> One,
      Ts |-> Half, bufferSize |-> MaxCap],
     [kind |-> "PIDController", Kp |-> One, Ki |-> Half, Kd |-> One,
      Ts |-> Half, bufferSize |-> MaxCap]}

\* the instance the constructor call c builds
Build(c) ==
    CASE c.kind = "StateSpaceSystem" ->
             StateSpaceSystem(c.A, c.B, c.C, c.D, c.Ts, c.bufferSize).obj
      [] c.kind = "PIDController" ->
             PIDController(c.Kp, c.Ki, c.Kd, c.Ts, c.bufferSize).obj

Other(i) == 3 - i

InitPair ==
    /\ \E c1 \in PairArgs, c2 \in PairArgs :
         /\ ctor = <<c1, c2>>
         /\ sys = <<Build(c1), Build(c2)>>
    /\ op = "ctor"
    /\ arg = <<>>
    /\ ret = "none"
    /\ prev = sys
    /\ hist = <<<<>>, <<>>>>
    /\ tunes = 0

\* the call name(v) on instance i returned r and left that instance as s
Called(i, name, v, r, s) ==
    /\ Len(hist[1]) + Len(hist[2]) < MaxPairOps
    /\ sys' = [sys EXCEPT ![i] = s]
    /\ op' = name
    /\ arg' = <<i, v>>
    /\ ret' = r
    /\ prev' = sys
    /\ hist' = [hist EXCEPT ![i] = Append(@, <<name, v, r>>)]
    /\ UNCHANGED <<ctor, tunes>>

\* next() with a step index shared by every instance
PairNext_SharedStep ==
    \E i \in {1, 2}, uk \in InputSet : \E r \in next(sys[i], uk) :
        /\ Len(hist[1]) + Len(hist[2]) < MaxPairOps
        /\ sys' = [sys EXCEPT ![i] = r.s,
                              ![Other(i)] = [@ EXCEPT !.base = [@ EXCEPT !.k_ = @ + 1]]]
        /\ op' = "next"
        /\ arg' = <<i, uk>>
        /\ ret' = r.y
        /\ prev' = sys
        /\ hist' = [hist EXCEPT ![i] = Append(@, <<"next", uk, r.y>>)]
        /\ UNCHANGED <<ctor, tunes>>

\* sys[i].next(uk)
PairNext ==
    \E i \in {1, 2}, uk \in InputSet : \E r \in next(sys[i], uk) :
        Called(i, "next", uk, r.y, r.s)

\* sys[i].reset()
PairReset ==
    \E i \in {1, 2} : Called(i, "reset", <<>>, "void", reset(sys[i]))

\* sys[i].bufferDump(os, format)
PairBufferDump ==
    \E i \in {1, 2}, format \in ExportFormat :
        Called(i, "bufferDump", format, bufferDump(sys[i], format), sys[i])

\* sys[i].setKp(Kp)
PairSetKp ==
    \E i \in {1, 2}, Kp \in GainSet :
        /\ sys[i].kind = "PIDController"
        /\ Called(i, "setKp", Kp, "void", setKp(sys[i], Kp))

\* sys[i].setGains(Kp, Ki, Kd)
PairSetGains ==
    \E i \in {1, 2}, Kp \in GainSet, Ki \in GainSet, Kd \in GainSet :
        /\ sys[i].kind = "PIDController"
        /\ Called(i, "setGains", <<Kp, Ki, Kd>>, "void", setGains(sys[i], Kp, Ki, Kd))

NextPair ==
    \/ PairNext
    \/ PairReset
    \/ PairBufferDump
    \/ PairSetKp
    \/ PairSetGains

SpecPair == InitPair /\ [][NextPair]_vars

\* the result of the call name(v) on the instance s alone, and the instance
\* it leaves
Alone(s, name, v) ==
    CASE name = "next" ->
             LET r == CHOOSE r \in next(s, v) : TRUE IN [y |-> r.y, s |-> r.s]
      [] name = "reset" -> [y |-> "void", s |-> reset(s)]
      [] name = "bufferDump" -> [y |-> bufferDump(s, v), s |-> s]
      [] name = "setKp" -> [y |-> "void", s |-> setKp(s, v)]
      [] name = "setGains" -> [y |-> "void", s |-> setGains(s, v[1], v[2], v[3])]

\* the instance built by c after the first n calls of log made on it alone
RECURSIVE AloneAfter(_, _, _)
AloneAfter(c, log, n) ==
    IF n = 0 THEN Build(c)
    ELSE Alone(AloneAfter(c, log, n - 1), log[n][1], log[n][2]).s

\* C24: two instances do not affect each other: however the calls on them
\* interleave, each call returns what it returns when the calls of its
\* instance are made alone in the same order, each instance ends in the
\* state it ends in alone, and a call on one leaves the other as it was.
C24_Isolated ==
    /\ \A i \in {1, 2} :
          /\ sys[i] = AloneAfter(ctor[i], hist[i], Len(hist[i]))
          /\ \A n \in 1 .. Len(hist[i]) :
                Alone(AloneAfter(ctor[i], hist[i], n - 1),
                      hist[i][n][1], hist[i][n][2]).y = hist[i][n][3]
    /\ op # "ctor" => sys[Other(arg[1])] = prev[Other(arg[1])]

\* two controllers built alike, one retuned and stepped, the other stepped
\* in between: they hold different states
C24_Witness ==
    /\ ctor[1] = ctor[2]
    /\ ctor[1].kind = "PIDController"
    /\ Len(hist[1]) = 2
    /\ Len(hist[2]) = 1
    /\ hist[1][1][1] = "setKp"
    /\ hist[1][2][1] = "next"
    /\ hist[2][1][1] = "next"
    /\ op = "next"
    /\ arg[1] = 1
    /\ sys[1] # sys[2]
    /\ sys[1].base.k_ = sys[2].base.k_

----------------------------------------------------------------------------
(* The histories of the transfer function *)

\* C31: in every state of a TransferFunctionSystem uHist_ has the length of
\* b_ and yHist_ the length of a_ less one (0 when a has one coefficient);
\* uHist_[i] is the (i+1)-th most recent input and yHist_[i] the (i+1)-th
\* most recent output since construction or reset, 0 where there is none.
C31_HistoriesHoldRecent ==
    IsTF =>
        LET d == sys.derived
            j == Len(hist)
        IN  /\ Len(d.uHist_) = Len(d.b_)
            /\ Len(d.yHist_) = Len(d.a_) - 1
            /\ Len(d.a_) = 1 => d.yHist_ = <<>>
            /\ \A i \in 0 .. Len(d.uHist_) - 1 :
                  d.uHist_[i + 1] = InputAt(hist, j - 1 - i)
            /\ \A i \in 0 .. Len(d.yHist_) - 1 :
                  d.yHist_[i + 1] = OutputAt(hist, j - 1 - i)

\* the third step of b = [4, 2], a = [2, -1] with the last two inputs
\* different: both inputs and the last output are held
C31_Witness ==
    /\ IsTF
    /\ op = "next"
    /\ Len(hist) = 3
    /\ Len(sys.derived.uHist_) = 2
    /\ Len(sys.derived.yHist_) = 1
    /\ sys.derived.uHist_[1] = arg
    /\ sys.derived.uHist_[2] = prev.derived.uHist_[1]
    /\ sys.derived.uHist_[2] # arg
    /\ sys.derived.yHist_[1] = ret

----------------------------------------------------------------------------
(* The dimensions of the state-space engine *)

\* C32: in every state of a StateSpaceSystem n_ >= 1, A_ has n_ rows of n_
\* columns each, and B_, C_ and x_ have n_ entries; next and reset leave
\* the length of x_ as it was.
C32_DimensionsAgree ==
    /\ IsSS =>
          LET d == sys.derived
          IN  /\ d.n_ >= 1
              /\ Len(d.A_) = d.n_
              /\ \A i \in 1 .. Len(d.A_) : Len(d.A_[i]) = d.n_
              /\ Len(d.B_) = d.n_
              /\ Len(d.C_) = d.n_
              /\ Len(d.x_) = d.n_
    /\ (IsSS /\ op \in {"next", "reset"}) =>
          Len(sys.derived.x_) = Len(prev.derived.x_)

\* reset of a two-state system whose state was not zero
C32_Witness ==
    /\ IsSS
    /\ op = "reset"
    /\ sys.derived.n_ = 2
    /\ prev.derived.x_ # Zeros(2)
    /\ sys.derived.x_ = Zeros(2)
    /\ Len(sys.derived.A_[2]) = 2

----------------------------------------------------------------------------
(* The two export formats, on the converters *)

NextDump ==
    \/ NewADConverter
    \/ NewDAConverter
    \/ CallNext
    \/ CallReset
    \/ CallBufferDump

SpecDump == Init /\ [][NextDump]_vars

\* C33: in every state the TSV dump and the MATLAB dump write the same rows
\* in the same order: the count_ valid samples, oldest first; on an empty
\* buffer both write the line "# Empty buffer" and no row.
C33_FormatsAgree ==
    sys # NoInstance =>
        LET tsv == bufferDump(sys, "TSV")
            matlab == bufferDump(sys, "MATLAB")
        IN  /\ tsv.rows = matlab.rows
            /\ Len(tsv.rows) = sys.base.count_
            /\ Len(matlab.rows) = sys.base.count_
            /\ matlab.rows = ExpectedRows(hist, sys.base.count_, Printed)
            /\ \A i \in 1 .. Len(matlab.rows) - 1 :
                  matlab.rows[i + 1][1] = matlab.rows[i][1] + 1
            /\ sys.base.count_ = 0 =>
                  /\ tsv.rows = <<>>
                  /\ matlab.rows = <<>>
                  /\ tsv.header = <<"# Empty buffer">>
                  /\ matlab.header = <<"# Empty buffer">>

\* a MATLAB dump of the wrapped two-slot buffer of an ADConverter: steps 1
\* and 2, as the TSV dump writes them
C33_Witness ==
    /\ IsADC
    /\ op = "bufferDump"
    /\ arg = "MATLAB"
    /\ sys.base.bufferSize_ = 2
    /\ sys.base.count_ = 2
    /\ sys.base.k_ = 3
    /\ Len(ret.rows) = 2
    /\ ret.rows[1][1] = 1
    /\ ret.rows[2][1] = 2
    /\ ret.rows[2][2] # ret.rows[2][3]
    /\ ret.rows = bufferDump(sys, "TSV").rows
    /\ ret.header # bufferDump(sys, "TSV").header

----------------------------------------------------------------------------
(* The cursor and the count of the ring buffer *)

Min(m, n) == IF m < n THEN m ELSE n

\* C35: with j the next() calls since construction or the last reset and C
\* the capacity, count_ = min(j, C) and writeIndex_ = j mod C; so while
\* count_ < C the valid samples are in the slots 0 .. count_ - 1, in the
\* order stored, and writeIndex_ = count_.
C35_CursorFollowsCalls ==
    sys # NoInstance =>
        LET b == sys.base
            j == Len(hist)
        IN  /\ b.count_ = Min(j, b.bufferSize_)
            /\ b.writeIndex_ = j % b.bufferSize_
            /\ b.count_ < b.bufferSize_ =>
                  /\ b.writeIndex_ = b.count_
                  /\ \A i \in 0 .. b.count_ - 1 :
                        b.buffer_[i] = [in |-> InputAt(hist, i),
                                        out |-> OutputAt(hist, i), k |-> i]
                  /\ \A i \in b.count_ .. b.bufferSize_ - 1 :
                        b.buffer_[i] = DefaultSample

\* a buffer of capacity 2 after three steps: full, the cursor back at 1;
\* and before that call it was full with the cursor at 0
C35_Witness ==
    /\ sys # NoInstance
    /\ op = "next"
    /\ Len(hist) = 3
    /\ sys.base.bufferSize_ = 2
    /\ sys.base.count_ = 2
    /\ sys.base.writeIndex_ = 1
    /\ prev.base.writeIndex_ = 0
    /\ prev.base.count_ = 2

----------------------------------------------------------------------------
(* The controller as a transfer function *)

\* the TransferFunctionSystem with b = [a0, a1, a2] and a = [1, -1] and the
\* period and capacity of the controller s
EquivalentTF(s) ==
    TransferFunctionSystem(<<s.derived.a0_, s.derived.a1_, s.derived.a2_>>,
                           <<One, MinusOne>>, s.base.Ts_, s.base.bufferSize_).obj

\* the instance s after next() on the first n inputs of h
RECURSIVE After(_, _, _)
After(s, h, n) ==
    IF n = 0 THEN s ELSE Alone(After(s, h, n - 1), "next", h[n][1]).s

\* C36: a PIDController and the TransferFunctionSystem with b = [a0, a1, a2]
\* and a = [1, -1], the same Ts and the same capacity, both fresh and given
\* the same errors, return the same output at every step and hold the same
\* samples, step index, count and cursor.
C36_ControllerIsTransferFunction ==
    (sys # NoInstance /\ sys.kind = "PIDController") =>
        LET tf == EquivalentTF(sys)
        IN  /\ \A n \in 1 .. Len(hist) :
                  Alone(After(tf, hist, n - 1), "next", hist[n][1]).y = hist[n][2]
            /\ After(tf, hist, Len(hist)).base = sys.base

\* the controller with all three gains after three steps on changing, nonzero
\* errors, the last output not the one before
C36_Witness ==
    /\ sys # NoInstance
    /\ sys.kind = "PIDController"
    /\ ~IsZero(sys.derived.a1_)
    /\ ~IsZero(sys.derived.a2_)
    /\ sys.derived.a1_ # sys.derived.a2_
    /\ op = "next"
    /\ Len(hist) = 3
    /\ hist[1][1] = One
    /\ hist[2][1] = Third
    /\ hist[3][1] = One
    /\ ret # hist[2][2]
    /\ sys.base.buffer_[0].out = ret

----------------------------------------------------------------------------
(* The order of the constructors' checks *)

\* what() of the exception DiscreteSystem::DiscreteSystem throws, or "none"
\* (the messages are written here without their accents)
DiscreteSystem_what(Ts, bufferSize) ==
    IF Leq0(Ts) THEN "DiscreteSystem: el periodo de muestreo Ts debe ser > 0"
    ELSE IF bufferSize = 0 THEN "DiscreteSystem: el tamano del buffer debe ser > 0"
    ELSE "none"

\* what() of the exception TransferFunctionSystem::TransferFunctionSystem throws
TransferFunctionSystem_what(b, a, Ts, bufferSize) ==
    LET base == DiscreteSystem_what(Ts, bufferSize)
    IN  IF base # "none" THEN base
        ELSE IF Len(a) = 0
             THEN "TransferFunctionSystem: el denominador 'a' no debe estar vacio"
        ELSE IF Len(b) = 0
             THEN "TransferFunctionSystem: el numerador 'b' no debe estar vacio"
        ELSE IF IsZero(a[1])
             THEN "TransferFunctionSystem: a[0] debe ser distinto de 0 para permitir la normalizacion"
        ELSE "none"

\* what() of the exception StateSpaceSystem::StateSpaceSystem throws
StateSpaceSystem_what(A, B, C, Ts, bufferSize) ==
    LET base == DiscreteSystem_what(Ts, bufferSize)
        n_ == Len(A)
    IN  IF base # "none" THEN base
        ELSE IF n_ = 0
             THEN "StateSpaceSystem: A no debe estar vacia y debe ser cuadrada (n x n)"
        ELSE IF \E i \in 1 .. n_ : Len(A[i]) # n_
             THEN "StateSpaceSystem: A debe ser cuadrada (cada fila debe tener n columnas)"
        ELSE IF Len(B) # n_
             THEN "StateSpaceSystem: el tamano de B debe coincidir con A (n)"
        ELSE IF Len(C) # n_
             THEN "StateSpaceSystem: el tamano de C debe coincidir con A (n)"
        ELSE "none"

\* what() of the exception the constructor call c throws
what(c) ==
    CASE c.kind = "TransferFunctionSystem" ->
             TransferFunctionSystem_what(c.b, c.a, c.Ts, c.bufferSize)
      [] c.kind = "StateSpaceSystem" ->
             StateSpaceSystem_what(c.A, c.B, c.C, c.Ts, c.bufferSize)
      [] OTHER -> DiscreteSystem_what(c.Ts, c.bufferSize)

\* the checks of the subtype that the arguments c fail
FailsSubtype(c) ==
    CASE c.kind = "TransferFunctionSystem" ->
             \/ Len(c.a) = 0
             \/ Len(c.b) = 0
             \/ IsZero(c.a[1])
      [] c.kind = "StateSpaceSystem" ->
             \/ Len(c.A) = 0
             \/ \E i \in 1 .. Len(c.A) : Len(c.A[i]) # Len(c.A)
             \/ Len(c.B) # Len(c.A)
             \/ Len(c.C) # Len(c.A)
      [] OTHER -> FALSE

\* C37: the checks of a constructor have a fixed precedence: Ts <= 0 is
\* reported as InvalidSamplingTime whatever else is wrong, then capacity 0 as
\* InvalidDimensions, and only then the subtype's own check
\* (InvalidCoefficients for the transfer function, InvalidDimensions for the
\* state-space engine); for the transfer function empty a is reported before
\* empty b, and empty b before a[0] == 0.
C37_ValidationPrecedence ==
    op = "ctor" =>
        LET c == ctor
        IN  /\ Leq0(c.Ts) =>
                  /\ ret = "InvalidSamplingTime"
                  /\ what(c) = "DiscreteSystem: el periodo de muestreo Ts debe ser > 0"
            /\ (~Leq0(c.Ts) /\ c.bufferSize = 0) =>
                  /\ ret = "InvalidDimensions"
                  /\ what(c) = "DiscreteSystem: el tamano del buffer debe ser > 0"
            /\ (~Leq0(c.Ts) /\ c.bufferSize > 0) =>
                  /\ ret = IF ~FailsSubtype(c) THEN "none"
                           ELSE IF c.kind = "TransferFunctionSystem"
                                THEN "InvalidCoefficients"
                                ELSE "InvalidDimensions"
                  /\ (c.kind = "StateSpaceSystem" /\ FailsSubtype(c)) =>
                        what(c) \in
                           {"StateSpaceSystem: A no debe estar vacia y debe ser cuadrada (n x n)",
                            "StateSpaceSystem: A debe ser cuadrada (cada fila debe tener n columnas)",
                            "StateSpaceSystem: el tamano de B debe coincidir con A (n)",
                            "StateSpaceSystem: el tamano de C debe coincidir con A (n)"}
                  /\ c.kind = "TransferFunctionSystem" =>
                        /\ Len(c.a) = 0 =>
                              what(c) = "TransferFunctionSystem: el denominador 'a' no debe estar vacio"
                        /\ (Len(c.a) > 0 /\ Len(c.b) = 0) =>
                              what(c) = "TransferFunctionSystem: el numerador 'b' no debe estar vacio"
                        /\ (Len(c.a) > 0 /\ Len(c.b) > 0 /\ IsZero(c.a[1])) =>
                              what(c) = "TransferFunctionSystem: a[0] debe ser distinto de 0 para permitir la normalizacion"

\* a transfer function given Ts = 0, capacity 0 and no coefficients at all:
\* the sampling period is what is reported
C37_Witness ==
    /\ op = "ctor"
    /\ ctor.kind = "TransferFunctionSystem"
    /\ IsZero(ctor.Ts)
    /\ ctor.bufferSize = 0
    /\ ctor.a = <<>>
    /\ ctor.b = <<>>
    /\ ret = "InvalidSamplingTime"
    /\ sys = NoInstance

----------------------------------------------------------------------------
(* double as IEEE 754 binary64, for the plant *)

\* Op applied to the value of x, and to the values of x and y: an operand is
\* evaluated once, before the operation
ValueOf(x, Op(_)) == CHOOSE r \in {Op(v) : v \in {x}} : TRUE
ValuesOf(x, y, Op(_, _)) == CHOOSE r \in {Op(u, v) : u \in {x}, v \in {y}} : TRUE

\* Natural numbers too wide for one machine word are sequences of limbs of
\* LimbBits bits, least significant first, with no zero limb at the top.
LimbBase == 2 ^ 15
\* the bits of the significand of a double (DBL_MANT_DIG)
MantDig == 53

\* the number of bits of the limb d
RECURSIVE LimbLen(_)
LimbLen(d) == IF d = 0 THEN 0 ELSE 1 + LimbLen(d \div 2)

LimbBits == LimbLen(LimbBase) - 1

\* the index of the highest limb of x that is not zero, or 0
Top(x) ==
    IF \A i \in DOMAIN x : x[i] = 0 THEN 0
    ELSE CHOOSE i \in DOMAIN x : x[i] # 0 /\ \A j \in i + 1 .. Len(x) : x[j] = 0

Trim(x) == ValueOf(x, LAMBDA v : SubSeq(v, 1, Top(v)))

Limb(x, i) == IF i <= Len(x) THEN x[i] ELSE 0

RECURSIVE AddFrom(_, _, _, _)
AddFrom(x, y, i, carry) ==
    IF i > Len(x) /\ i > Len(y)
    THEN IF carry = 0 THEN <<>> ELSE <<carry>>
    ELSE LET t == Limb(x, i) + Limb(y, i) + carry
         IN  <<t % LimbBase>> \o AddFrom(x, y, i + 1, t \div LimbBase)

NatAdd(x, y) == ValuesOf(x, y, LAMBDA u, v : Trim(AddFrom(u, v, 1, 0)))

RECURSIVE SubFrom(_, _, _, _)
SubFrom(x, y, i, borrow) ==
    IF i > Len(x) THEN <<>>
    ELSE LET t == x[i] - Limb(y, i) - borrow
         IN  <<t % LimbBase>> \o SubFrom(x, y, i + 1, IF t < 0 THEN 1 ELSE 0)

\* x - y for x >= y
NatSub(x, y) == ValuesOf(x, y, LAMBDA u, v : Trim(SubFrom(u, v, 1, 0)))

RECURSIVE LessFrom(_, _, _)
LessFrom(x, y, i) ==
    IF i = 0 THEN FALSE
    ELSE IF x[i] # y[i] THEN x[i] < y[i]
    ELSE LessFrom(x, y, i - 1)

NatLess(x, y) ==
    ValuesOf(x, y, LAMBDA u, v :
        IF Len(u) # Len(v) THEN Len(u) < Len(v) ELSE LessFrom(u, v, Len(u)))

RECURSIVE MulLimbFrom(_, _, _, _)
MulLimbFrom(x, d, i, carry) ==
    IF i > Len(x)
    THEN IF carry = 0 THEN <<>> ELSE <<carry>>
    ELSE LET t == x[i] * d + carry
         IN  <<t % LimbBase>> \o MulLimbFrom(x, d, i + 1, t \div LimbBase)

\* x * d for one limb d
NatMulLimb(x, d) == ValuesOf(x, d, LAMBDA u, v : Trim(MulLimbFrom(u, v, 1, 0)))

RECURSIVE MulFrom(_, _, _)
MulFrom(x, y, j) ==
    IF j > Len(y) THEN <<>>
    ELSE NatAdd(NatMulLimb(x, y[j]), <<0>> \o MulFrom(x, y, j + 1))

NatMul(x, y) == ValuesOf(x, y, LAMBDA u, v : Trim(MulFrom(u, v, 1)))

RECURSIVE DivLimbFrom(_, _, _, _)
DivLimbFrom(x, d, i, rem) ==
    IF i = 0 THEN <<>>
    ELSE LET t == rem * LimbBase + x[i]
         IN  DivLimbFrom(x, d, i - 1, t % d) \o <<t \div d>>

RECURSIVE ModLimbFrom(_, _, _, _)
ModLimbFrom(x, d, i, rem) ==
    IF i = 0 THEN rem ELSE ModLimbFrom(x, d, i - 1, (rem * LimbBase + x[i]) % d)

\* the quotient and the remainder of x by one limb d
NatDivLimb(x, d) == ValuesOf(x, d, LAMBDA u, v : Trim(DivLimbFrom(u, v, Len(u), 0)))
NatModLimb(x, d) == ValuesOf(x, d, LAMBDA u, v : ModLimbFrom(u, v, Len(u), 0))

\* x * 2^s and floor(x / 2^s)
ShiftLeft(x, s) ==
    ValuesOf(x, s, LAMBDA u, v :
        IF u = <<>> THEN <<>>
        ELSE [i \in 1 .. v \div LimbBits |-> 0] \o NatMulLimb(u, 2 ^ (v % LimbBits)))
ShiftRight(x, s) ==
    ValuesOf(x, s, LAMBDA u, v :
        IF v \div LimbBits >= Len(u) THEN <<>>
        ELSE NatDivLimb(SubSeq(u, v \div LimbBits + 1, Len(u)), 2 ^ (v % LimbBits)))

\* the number of bits of x
BitLen(x) ==
    ValueOf(x, LAMBDA v :
        IF v = <<>> THEN 0 ELSE LimbBits * (Len(v) - 1) + LimbLen(v[Len(v)]))

IsOdd(x) == ValueOf(x, LAMBDA v : v # <<>> /\ v[1] % 2 = 1)

\* A double is <<sign, m, e>> of value sign * m * 2^e with m of MantDig bits,
\* or zero.  The runs of the plant stay far from overflow and from the
\* subnormal range, and the sign of a zero never reaches an output, so
\* neither is represented.
F64Zero == <<1, <<>>, 0>>

\* q, or q + 1, as the part r cut off below it says: to nearest, ties to even
RoundedUp(q, r, half) ==
    IF NatLess(half, r) \/ (r = half /\ IsOdd(q)) THEN NatAdd(q, <<1>>) ELSE q

\* sign * m * 2^e rounded to the nearest double, ties to even
F64Round(sign, m, e) ==
    ValuesOf(m, BitLen(m), LAMBDA mv, n :
        IF mv = <<>> THEN F64Zero
        ELSE IF n <= MantDig
        THEN <<sign, ShiftLeft(mv, MantDig - n), e - (MantDig - n)>>
        ELSE ValueOf(ShiftRight(mv, n - MantDig), LAMBDA q :
                 ValueOf(RoundedUp(q, NatSub(mv, ShiftLeft(q, n - MantDig)),
                                   ShiftLeft(<<1>>, n - MantDig - 1)),
                         LAMBDA q1 :
                             IF BitLen(q1) > MantDig
                             THEN <<sign, ShiftRight(q1, 1), e + (n - MantDig) + 1>>
                             ELSE <<sign, q1, e + (n - MantDig)>>)))

F64Neg(x) == ValueOf(x, LAMBDA v : IF v[2] = <<>> THEN v ELSE <<-v[1], v[2], v[3]>>)

\* the sum of x and y, neither zero, with their significands mx and my
\* brought to the exponent e
AlignedSum(x, y, mx, my, e) ==
    IF x[1] = y[1] THEN F64Round(x[1], NatAdd(mx, my), e)
    ELSE IF mx = my THEN F64Zero
    ELSE IF NatLess(my, mx) THEN F64Round(x[1], NatSub(mx, my), e)
    ELSE F64Round(y[1], NatSub(my, mx), e)

\* x + y
F64Add(x, y) ==
    ValuesOf(x, y, LAMBDA u, v :
        IF u[2] = <<>> THEN v
        ELSE IF v[2] = <<>> THEN u
        ELSE IF u[3] < v[3]
        THEN ValueOf(ShiftLeft(v[2], v[3] - u[3]), LAMBDA mv :
                 AlignedSum(u, v, u[2], mv, u[3]))
        ELSE ValueOf(ShiftLeft(u[2], u[3] - v[3]), LAMBDA mu :
                 AlignedSum(u, v, mu, v[2], v[3])))

\* x - y
F64Sub(x, y) == F64Add(x, F64Neg(y))

\* x * y
F64Mul(x, y) ==
    ValuesOf(x, y, LAMBDA u, v :
        IF u[2] = <<>> \/ v[2] = <<>> THEN F64Zero
        ELSE F64Round(u[1] * v[1], NatMul(u[2], v[2]), u[3] + v[3]))

\* one bit of a long division: qr is <<the quotient so far, what is left>>
DivStep(qr, d, i) ==
    ValuesOf(qr, ShiftLeft(d, i), LAMBDA v, t :
        IF NatLess(v[2], t) THEN v
        ELSE <<NatAdd(v[1], ShiftLeft(<<1>>, i)), NatSub(v[2], t)>>)

\* <<floor(r / d), what is left of r>> by long division, one bit of the
\* quotient at a time, from bit hi down to bit lo
RECURSIVE DivLoop(_, _, _, _)
DivLoop(qr, d, hi, lo) ==
    IF hi < lo THEN qr
    ELSE IF hi = lo THEN DivStep(qr, d, hi)
    ELSE ValuesOf(DivLoop(qr, d, hi, (hi + lo) \div 2 + 1), (hi + lo) \div 2,
                  LAMBDA v, mid : DivLoop(v, d, mid, lo))

\* x / y for y # 0: the quotient to MantDig + 3 bits and a sticky bit, rounded
F64Div(x, y) ==
    ValuesOf(x, y, LAMBDA u, v :
        IF u[2] = <<>> THEN F64Zero
        ELSE ValueOf(DivLoop(<<<<>>, ShiftLeft(u[2], MantDig + 3)>>, v[2], MantDig + 3, 0),
                     LAMBDA qr :
                         F64Round(u[1] * v[1],
                                  NatAdd(ShiftLeft(qr[1], 1),
                                         IF qr[2] = <<>> THEN <<>> ELSE <<1>>),
                                  u[3] - v[3] - (MantDig + 3) - 1)))

\* x < y
F64Less(x, y) == ValueOf(F64Sub(x, y), LAMBDA d : d[2] # <<>> /\ d[1] = -1)

\* the double nearest to n / d, for a limb n > 0 and a limb d > 0: what
\* the compiler makes of a decimal literal
F64Literal(n, d) ==
    ValueOf(ShiftLeft(<<n>>, MantDig + 2 * LimbBits), LAMBDA scaled :
        F64Round(1, NatAdd(ShiftLeft(NatDivLimb(scaled, d), 1),
                           IF NatModLimb(scaled, d) = 0 THEN <<>> ELSE <<1>>),
                 -(MantDig + 2 * LimbBits) - 1))

F64One == F64Literal(1, 1)

----------------------------------------------------------------------------
(* Planta::Sistema: the transfer function engine on doubles *)

F64Zeros(n) == [i \in 1 .. n |-> F64Zero]

\* a[i] / a0 for every coefficient
Normalized64(c, a0) == [i \in 1 .. Len(c) |-> F64Div(c[i], a0)]

\* TransferFunctionSystem::TransferFunctionSystem
TransferFunctionSystem64(b, a, Ts, bufferSize) ==
    LET base == DiscreteSystem(Ts, bufferSize)
    IN  IF base.thrown # "none" THEN Throw(base.thrown)
        ELSE IF Len(a) = 0 THEN Throw("InvalidCoefficients")
        ELSE IF Len(b) = 0 THEN Throw("InvalidCoefficients")
        ELSE IF a[1] = F64Zero THEN Throw("InvalidCoefficients")
        ELSE LET a_ == Normalized64(a, a[1])
                 b_ == Normalized64(b, a[1])
             IN  [thrown |-> "none",
                  obj |-> [kind |-> "TransferFunctionSystem",
                           base |-> [base.obj EXCEPT !.buffer_ =
                                        [i \in DOMAIN @ |->
                                            [in |-> F64Zero, out |-> F64Zero, k |-> 0]]],
                           derived |-> [b_ |-> b_, a_ |-> a_,
                                        uHist_ |-> F64Zeros(Len(b_)),
                                        yHist_ |-> F64Zeros(IF Len(a_) > 0
                                                            THEN Len(a_) - 1 ELSE 0)]]]

\* for (i = 0; i < b_.size(); ++i) y_num += b_[i] * uHist_[i];
RECURSIVE NumLoop64(_, _, _, _)
NumLoop64(b_, uHist_, i, y_num) ==
    IF i < Len(b_)
    THEN NumLoop64(b_, uHist_, i + 1, F64Add(y_num, F64Mul(b_[i + 1], uHist_[i + 1])))
    ELSE y_num

\* for (j = 1; j < a_.size(); ++j) y_den += a_[j] * yHist_[j - 1];
RECURSIVE DenLoop64(_, _, _, _)
DenLoop64(a_, yHist_, j, y_den) ==
    IF j < Len(a_)
    THEN DenLoop64(a_, yHist_, j + 1, F64Add(y_den, F64Mul(a_[j + 1], yHist_[j])))
    ELSE y_den

\* TransferFunctionSystem::compute
TransferFunctionSystem_compute64(d, uk) ==
    LET uHist == Shifted(d.uHist_, uk)
        y_num == NumLoop64(d.b_, uHist, 0, F64Zero)
        y_den == DenLoop64(d.a_, d.yHist_, 1, F64Zero)
        yk == F64Sub(y_num, y_den)
    IN  ValueOf(yk, LAMBDA v :
            [y |-> v,
             derived |-> [d EXCEPT !.uHist_ = uHist, !.yHist_ = Shifted(d.yHist_, v)]])

\* the plant with the denominator [1.0, -0.98]
Sistema_Denominator098(Tp, bufferSize) ==
    TransferFunctionSystem64(<<F64Literal(99, 10000), F64Literal(99, 10000)>>,
                             <<F64Literal(1, 1), F64Neg(F64Literal(98, 100))>>,
                             Tp, bufferSize)

\* Sistema::Sistema: b = {0.0099, 0.0099}, a = {1.0, -0.9802}
Sistema(Tp, bufferSize) ==
    TransferFunctionSystem64(<<F64Literal(99, 10000), F64Literal(99, 10000)>>,
                             <<F64Literal(1, 1), F64Neg(F64Literal(9802, 10000))>>,
                             Tp, bufferSize)

\* DiscreteSystem::next on the plant (k_ stays far below INT_MAX in its runs)
Sistema_next(s, uk) ==
    ValueOf(TransferFunctionSystem_compute64(s.derived, uk), LAMBDA c :
        [y |-> c.y,
         s |-> [s EXCEPT !.derived = c.derived,
                         !.base = [storeSample(s.base, uk, c.y) EXCEPT !.k_ = @ + 1]]])

----------------------------------------------------------------------------
(* A client of the plant: the unit step of test_planta.cpp, run on, and a
   run that is first given the input that brings the output to 1.  Here hist
   holds the calls whose input was not 1.0. *)

\* the steps of a run
MaxPlantSteps == 1675

Hundredth == <<1, 100>>
\* the default Tp and another one
PlantTpSet == {Hundredth, Tenth}

\* the double nearest to 5000/99
Kick == F64Literal(5000, 99)

NewSistema ==
    \E Tp \in PlantTpSet :
        Constructed([kind |-> "Sistema", Ts |-> Tp, bufferSize |-> MaxCap],
                    Sistema(Tp, MaxCap))

\* planta.next(uk): 1.0, or as the first input of a short run the other one
CallSistemaNext ==
    /\ sys # NoInstance
    /\ sys.base.k_ < (IF hist = <<>> THEN MaxPlantSteps ELSE MaxCalls)
    /\ \E uk \in (IF sys.base.k_ = 0 THEN {F64One, Kick} ELSE {F64One}) :
         \E r \in {Sistema_next(sys, uk)} :
             /\ sys' = r.s
             /\ op' = "next"
             /\ arg' = uk
             /\ ret' = r.y
             /\ hist' = IF uk = F64One THEN hist ELSE Append(hist, <<uk, r.y>>)
    /\ prev' = sys
    /\ UNCHANGED <<ctor, tunes>>

NextPlant ==
    \/ NewSistema
    \/ CallSistemaNext

SpecPlant == Init /\ [][NextPlant]_vars

----------------------------------------------------------------------------
(* The gain of the plant *)

\* the plant holds b = [0.0099, 0.0099] and a = [1, -0.9802] whatever Tp it
\* was given, and next(1) on previous input 1 and previous output 1 returns 1
UnitGain ==
    /\ sys.derived.b_ = <<F64Literal(99, 10000), F64Literal(99, 10000)>>
    /\ sys.derived.a_ = <<F64One, F64Neg(F64Literal(9802, 10000))>>
    /\ ctor.Ts \in PlantTpSet
    /\ (/\ op = "next"
        /\ arg = F64One
        /\ prev.derived.uHist_[1] = F64One
        /\ prev.derived.yHist_[1] = F64One) => ret = F64One

\* C39 as stated: the plant has unit steady-state gain (previous input 1 and
\* previous output 1 is a fixed point of next(1)), its coefficients do not
\* depend on Tp, and from a fresh state its step response is strictly
\* increasing and below 1 at every step.
C39_StepResponseRises ==
    sys # NoInstance =>
        /\ UnitGain
        /\ (op = "next" /\ hist = <<>>) =>
              /\ F64Less(ret, F64One)
              /\ prev.base.k_ > 0 => F64Less(prev.derived.yHist_[1], ret)

\* C39, amended: the plant has unit steady-state gain, its coefficients do
\* not depend on Tp, and from a fresh state its step response is below 1 at
\* every step, strictly increasing up to y[1669] and constant from there on.
C39_StepResponseStalls ==
    sys # NoInstance =>
        /\ UnitGain
        /\ (op = "next" /\ hist = <<>>) =>
              /\ F64Less(ret, F64One)
              /\ (prev.base.k_ > 0 /\ prev.base.k_ < 1670) =>
                    F64Less(prev.derived.yHist_[1], ret)
              /\ prev.base.k_ >= 1670 => ret = prev.derived.yHist_[1]

\* the step y[1670] of the step response of a plant built with Tp = 0.1: the
\* output is the one before, below 1, and the step before still rose
C39_Witness ==
    /\ sys # NoInstance
    /\ ctor.Ts = Tenth
    /\ op = "next"
    /\ hist = <<>>
    /\ prev.base.k_ = 1670
    /\ ret = prev.derived.yHist_[1]
    /\ F64Less(prev.derived.uHist_[1], F64Add(ret, ret))
    /\ F64Less(ret, F64One)
    /\ F64Less(prev.base.buffer_[0].out, ret)

----------------------------------------------------------------------------
(* Two threads calling next() on one instance.  next() is three statements
   and takes no lock; a thread runs them one at a time.  Here op holds each
   thread's position in next(), arg its uk, ret its yk, and hist the calls
   and returns in the order they happened. *)

\* the next() calls of a run
MaxRaceCalls == 3

Threads == {1, 2}

\* the instances the threads share
RaceArgs ==
    {[kind |-> "ADConverter", Ts |-> Half, bufferSize |-> MaxCap],
     [kind |-> "TransferFunctionSystem", b |-> <<Four, Two>>, a |-> <<Two, MinusOne>>,
      Ts |-> Half, bufferSize |-> MaxCap]}

InitRace ==
    /\ \E c \in RaceArgs :
         /\ ctor = c
         /\ sys = FreshLike(NoInstance, c)
    /\ op = <<"idle", "idle">>
    /\ arg = <<Zero, Zero>>
    /\ ret = <<Zero, Zero>>
    /\ prev = sys
    /\ hist = <<>>
    /\ tunes = 0

\* the calls begun so far
Calls(h) == Cardinality({i \in DOMAIN h : h[i][2] = "call"})
\* the calls that have returned
Returns(h) == Cardinality({i \in DOMAIN h : h[i][2] = "return"})

\* double yk = compute(uk);
RaceCompute(t) ==
    /\ op[t] = "idle"
    /\ Calls(hist) < MaxRaceCalls
    /\ \E uk \in InputSet :
         LET c == compute(sys, uk)
         IN  /\ sys' = [sys EXCEPT !.derived = c.derived]
             /\ arg' = [arg EXCEPT ![t] = uk]
             /\ ret' = [ret EXCEPT ![t] = c.y]
    /\ op' = [op EXCEPT ![t] = "computed"]
    /\ hist' = Append(hist, <<t, "call">>)
    /\ prev' = sys
    /\ UNCHANGED <<ctor, tunes>>

\* storeSample(uk, yk);
RaceStoreSample(t) ==
    /\ op[t] = "computed"
    /\ sys' = [sys EXCEPT !.base = storeSample(sys.base, arg[t], ret[t])]
    /\ op' = [op EXCEPT ![t] = "stored"]
    /\ prev' = sys
    /\ UNCHANGED <<ctor, arg, ret, hist, tunes>>

\* return yk; with k_ left as it was
RaceIncrement_Skipped(t) ==
    /\ op[t] = "stored"
    /\ sys' = sys
    /\ op' = [op EXCEPT ![t] = "idle"]
    /\ hist' = Append(hist, <<t, "return">>)
    /\ prev' = sys
    /\ UNCHANGED <<ctor, arg, ret, tunes>>

\* ++k_; return yk;
RaceIncrement(t) ==
    /\ op[t] = "stored"
    /\ \E k \in PreIncrement(sys.base.k_) : sys' = [sys EXCEPT !.base.k_ = k]
    /\ op' = [op EXCEPT ![t] = "idle"]
    /\ hist' = Append(hist, <<t, "return">>)
    /\ prev' = sys
    /\ UNCHANGED <<ctor, arg, ret, tunes>>

NextRace ==
    \E t \in Threads :
        \/ RaceCompute(t)
        \/ RaceStoreSample(t)
        \/ RaceIncrement(t)

SpecRace == InitRace /\ [][NextRace]_vars

\* some call began while a call of the other thread was in progress
Overlapped(h) ==
    \E i \in DOMAIN h, j \in DOMAIN h :
        /\ i < j
        /\ h[i][2] = "call"
        /\ h[j][2] = "call"
        /\ h[j][1] # h[i][1]
        /\ \A m \in i + 1 .. j - 1 : h[m] # <<h[i][1], "return">>

\* the slots of the ring buffer that hold a stored sample
ValidSlots(b) ==
    IF b.count_ < b.bufferSize_ THEN 0 .. b.count_ - 1 ELSE 0 .. b.bufferSize_ - 1

\* two valid samples carry the same step index
SameIndexTwice(b) ==
    \E i \in ValidSlots(b), j \in ValidSlots(b) : i # j /\ b.buffer_[i].k = b.buffer_[j].k

\* the samples stored since construction
Stored == Returns(hist) + Cardinality({t \in Threads : op[t] = "stored"})

\* C38: as long as the next() calls on an instance have never overlapped, no
\* two valid samples of its buffer carry the same step index, and whenever
\* no call is in progress k_ is the number of samples stored; calls that
\* interleave between compute, storeSample and ++k_ do reach a state with
\* two valid samples of the same step index.
C38_SingleWriterConsistent ==
    ~Overlapped(hist) =>
        /\ ~SameIndexTwice(sys.base)
        /\ (\A t \in Threads : op[t] = "idle") => sys.base.k_ = Stored
        /\ sys.base.k_ = Returns(hist)

\* both threads have stored a sample before either incremented k_: the two
\* samples of the buffer carry step index 0, while k_ is 0 with two stored
C38_Witness ==
    /\ Overlapped(hist)
    /\ op = <<"stored", "stored">>
    /\ sys.base.count_ = 2
    /\ sys.base.buffer_[0].k = 0
    /\ sys.base.buffer_[1].k = 0
    /\ SameIndexTwice(sys.base)
    /\ sys.base.k_ = 0
    /\ Stored = 2

----------------------------------------------------------------------------
(* The operations statement by statement: every pass through a loop body is
   a step.  Here op is the call last made, arg its argument, prev the
   instance it was made on, and ret the frame of the call: the statement it
   is at, its local variables and the loop bodies it has run. *)

\* the width of size_t
SizeBits == 3
\* n as a size_t
SizeT(n) == n % (2 ^ SizeBits)

\* the next() calls between two resets
MaxStepCalls == 2

\* the frame of a call that is at the statement pc
Frame(pc) ==
    [rows |-> <<>>, pc |-> pc, i |-> 0, j |-> 0, y_num |-> Zero, y_den |-> Zero,
     yk |-> Zero, sum |-> Zero, x_next |-> <<>>, oldestIndex |-> 0, iterations |-> 0]

\* the instances the calls are made on: a transfer function without output
\* history, one with two past outputs, a system of two states and a converter
StatementArgs ==
    {[kind |-> "TransferFunctionSystem", b |-> <<One>>, a |-> <<One>>,
      Ts |-> Half, bufferSize |-> MaxCap],
     [kind |-> "TransferFunctionSystem", b |-> <<Four, Two>>,
      a |-> <<Two, MinusOne, One>>, Ts |-> Half, bufferSize |-> MaxCap],
     [kind |-> "StateSpaceSystem", A |-> <<<<Zero, One>>, <<MinusOne, Half>>>>,
      B |-> <<Zero, One>>, C |-> <<One, Zero>>, D |-> One,
      Ts |-> Half, bufferSize |-> MaxCap],
     [kind |-> "ADConverter", Ts |-> Half, bufferSize |-> MaxCap]}

InitStatements ==
    /\ \E c \in StatementArgs :
         /\ ctor = c
         /\ sys = FreshLike(NoInstance, c)
    /\ op = "ctor"
    /\ arg = <<>>
    /\ ret = Frame("returned")
    /\ prev = sys
    /\ hist = <<>>
    /\ tunes = 0

\* no call is in progress
Returned == ret.pc = "returned"

\* the call op is at the statement pc
At(name, pc) == op = name /\ ret.pc = pc

\* the statement leaves the frame as l, and the instance as it is
Local(l) ==
    /\ ret' = l
    /\ UNCHANGED <<sys, op, arg, prev, ctor, hist, tunes>>

\* the statement leaves the instance as s and the frame as l
Effect(s, l) ==
    /\ sys' = s
    /\ ret' = l
    /\ UNCHANGED <<op, arg, prev, ctor, hist, tunes>>

\* sys.next(uk): the call, and the dispatch of compute
EnterNext ==
    /\ Returned
    /\ Len(hist) < MaxStepCalls
    /\ \E uk \in InputSet : arg' = uk
    /\ op' = "next"
    /\ prev' = sys
    /\ ret' = Frame(CASE sys.kind = "TransferFunctionSystem" -> "shiftU"
                      [] sys.kind = "StateSpaceSystem" -> "output"
                      [] OTHER -> "compute")
    /\ UNCHANGED <<sys, ctor, hist, tunes>>

\* if (!uHist_.empty()) { for (size_t i = uHist_.size() - 1; ...
ShiftInputsEnter ==
    /\ At("next", "shiftU")
    /\ IF Len(sys.derived.uHist_) # 0
       THEN Local([ret EXCEPT !.pc = "shiftU_loop",
                              !.i = SizeT(Len(sys.derived.uHist_) - 1)])
       ELSE Local([ret EXCEPT !.pc = "num", !.i = 0])

\* ... i > 0; --i) uHist_[i] = uHist_[i - 1];  uHist_[0] = uk; }
ShiftInputsLoop ==
    /\ At("next", "shiftU_loop")
    /\ IF ret.i > 0
       THEN Effect([sys EXCEPT !.derived.uHist_[ret.i + 1] = sys.derived.uHist_[ret.i]],
                   [ret EXCEPT !.i = SizeT(ret.i - 1), !.iterations = @ + 1])
       ELSE Effect([sys EXCEPT !.derived.uHist_[1] = arg],
                   [ret EXCEPT !.pc = "num", !.i = 0])

\* for (size_t i = 0; i < b_.size(); ++i) y_num += b_[i] * uHist_[i];
NumeratorLoop ==
    /\ At("next", "num")
    /\ IF ret.i < Len(sys.derived.b_)
       THEN Local([ret EXCEPT !.y_num = Add(@, Mul(sys.derived.b_[ret.i + 1],
                                                   sys.derived.uHist_[ret.i + 1])),
                              !.i = SizeT(ret.i + 1), !.iterations = @ + 1])
       ELSE Local([ret EXCEPT !.pc = "den", !.j = 1])

\* for (size_t j = 1; j < a_.size(); ++j) y_den += a_[j] * yHist_[j - 1];
\* const double yk = y_num - y_den;
DenominatorLoop ==
    /\ At("next", "den")
    /\ IF ret.j < Len(sys.derived.a_)
       THEN Local([ret EXCEPT !.y_den = Add(@, Mul(sys.derived.a_[ret.j + 1],
                                                   sys.derived.yHist_[ret.j])),
                              !.j = SizeT(ret.j + 1), !.iterations = @ + 1])
       ELSE Local([ret EXCEPT !.yk = Sub(ret.y_num, ret.y_den), !.pc = "shiftY"])

\* the loop over yHist_ entered without the test for an empty history
ShiftOutputsEnter_Unguarded ==
    /\ At("next", "shiftY")
    /\ Local([ret EXCEPT !.pc = "shiftY_loop",
                         !.i = SizeT(Len(sys.derived.yHist_) - 1)])

\* if (!yHist_.empty()) { for (size_t i = yHist_.size() - 1; ...
ShiftOutputsEnter ==
    /\ At("next", "shiftY")
    /\ IF Len(sys.derived.yHist_) # 0
       THEN Local([ret EXCEPT !.pc = "shiftY_loop",
                              !.i = SizeT(Len(sys.derived.yHist_) - 1)])
       ELSE Local([ret EXCEPT !.pc = "storeSample"])

\* ... i > 0; --i) yHist_[i] = yHist_[i - 1];  yHist_[0] = yk; }  return yk;
ShiftOutputsLoop ==
    /\ At("next", "shiftY_loop")
    /\ IF ret.i > 0
       THEN Effect([sys EXCEPT !.derived.yHist_[ret.i + 1] = sys.derived.yHist_[ret.i]],
                   [ret EXCEPT !.i = SizeT(ret.i - 1), !.iterations = @ + 1])
       ELSE Effect([sys EXCEPT !.derived.yHist_[1] = ret.yk],
                   [ret EXCEPT !.pc = "storeSample"])

\* for (size_t i = 0; i < n_; ++i) yk += C_[i] * x_[i];  yk += D_ * uk;
\* std::vector<double> x_next(n_, 0.0);
OutputLoop ==
    /\ At("next", "output")
    /\ IF ret.i < sys.derived.n_
       THEN Local([ret EXCEPT !.yk = Add(@, Mul(sys.derived.C_[ret.i + 1],
                                                sys.derived.x_[ret.i + 1])),
                              !.i = SizeT(ret.i + 1), !.iterations = @ + 1])
       ELSE Local([ret EXCEPT !.yk = Add(@, Mul(sys.derived.D_, arg)),
                              !.x_next = Zeros(sys.derived.n_),
                              !.i = 0, !.pc = "rows"])

\* for (size_t i = 0; i < n_; ++i) { double sum = 0.0; ...  x_.swap(x_next);
RowsLoop ==
    /\ At("next", "rows")
    /\ IF ret.i < sys.derived.n_
       THEN Local([ret EXCEPT !.sum = Zero, !.j = 0, !.pc = "row"])
       ELSE Effect([sys EXCEPT !.derived.x_ = ret.x_next],
                   [ret EXCEPT !.pc = "storeSample"])

\* for (size_t j = 0; j < n_; ++j) sum += Ai[j] * x_[j];
\* sum += B_[i] * uk;  x_next[i] = sum; }
RowLoop ==
    /\ At("next", "row")
    /\ IF ret.j < sys.derived.n_
       THEN Local([ret EXCEPT !.sum = Add(@, Mul(sys.derived.A_[ret.i + 1][ret.j + 1],
                                                 sys.derived.x_[ret.j + 1])),
                              !.j = SizeT(ret.j + 1), !.iterations = @ + 1])
       ELSE Local([ret EXCEPT !.sum = Add(ret.sum, Mul(sys.derived.B_[ret.i + 1], arg)),
                              !.x_next[ret.i + 1] =
                                  Add(ret.sum, Mul(sys.derived.B_[ret.i + 1], arg)),
                              !.i = SizeT(ret.i + 1), !.iterations = @ + 1,
                              !.pc = "rows"])

\* compute of a type whose compute has no loop
ComputeStatement ==
    /\ At("next", "compute")
    /\ LET c == compute(sys, arg)
       IN  Effect([sys EXCEPT !.derived = c.derived],
                  [ret EXCEPT !.yk = c.y, !.pc = "storeSample"])

\* storeSample(uk, yk);
StoreSampleStatement ==
    /\ At("next", "storeSample")
    /\ Effect([sys EXCEPT !.base = storeSample(sys.base, arg, ret.yk)],
              [ret EXCEPT !.pc = "increment"])

\* ++k_;  return yk;
IncrementStatement ==
    /\ At("next", "increment")
    /\ \E k \in PreIncrement(sys.base.k_) : sys' = [sys EXCEPT !.base.k_ = k]
    /\ ret' = [ret EXCEPT !.pc = "returned"]
    /\ hist' = Append(hist, <<arg, ret.yk>>)
    /\ UNCHANGED <<op, arg, prev, ctor, tunes>>

\* sys.reset(): k_ = 0; writeIndex_ = 0; count_ = 0;
EnterReset ==
    /\ Returned
    /\ op' = "reset"
    /\ arg' = <<>>
    /\ prev' = sys
    /\ sys' = [sys EXCEPT !.base = [@ EXCEPT !.k_ = 0, !.writeIndex_ = 0, !.count_ = 0]]
    /\ ret' = Frame("clear")
    /\ UNCHANGED <<ctor, hist, tunes>>

\* for (auto & s : buffer_) s = Sample{0.0, 0.0, 0};
ClearLoop ==
    /\ At("reset", "clear")
    /\ IF ret.i < sys.base.bufferSize_
       THEN Effect([sys EXCEPT !.base.buffer_[ret.i] = DefaultSample],
                   [ret EXCEPT !.i = SizeT(ret.i + 1), !.iterations = @ + 1])
       ELSE Local([ret EXCEPT !.pc = "resetState"])

\* resetState();  (std::fill and assign are one statement each)
ResetStateStatement ==
    /\ At("reset", "resetState")
    /\ sys' = [sys EXCEPT !.derived = resetState(sys)]
    /\ ret' = [ret EXCEPT !.pc = "returned"]
    /\ hist' = <<>>
    /\ UNCHANGED <<op, arg, prev, ctor, tunes>>

\* sys.bufferDump(os, format): the early return on an empty buffer, or
\* oldestIndex and the header
EnterBufferDump ==
    /\ Returned
    /\ \E format \in ExportFormat : arg' = format
    /\ op' = "bufferDump"
    /\ prev' = sys
    /\ ret' = IF sys.base.count_ = 0 THEN Frame("returned")
              ELSE [Frame("dump") EXCEPT !.oldestIndex =
                       IF sys.base.count_ = sys.base.bufferSize_
                       THEN sys.base.writeIndex_ ELSE 0]
    /\ UNCHANGED <<sys, ctor, hist, tunes>>

\* for (size_t i = 0; i < count_; ++i) { idx = (oldestIndex + i) % bufferSize_; ... }
\* in either branch
DumpRowsLoop ==
    /\ At("bufferDump", "dump")
    /\ IF ret.i < sys.base.count_
       THEN LET smp == sys.base.buffer_[(ret.oldestIndex + ret.i) % sys.base.bufferSize_]
            IN  Local([ret EXCEPT !.rows = Append(@, <<smp.k, FormatDouble(smp.in),
                                                      FormatDouble(smp.out)>>),
                                  !.i = SizeT(ret.i + 1), !.iterations = @ + 1])
       ELSE Local([ret EXCEPT !.pc = "returned"])

\* the statement a call in progress runs next
Statement ==
    \/ ShiftInputsEnter
    \/ ShiftInputsLoop
    \/ NumeratorLoop
    \/ DenominatorLoop
    \/ ShiftOutputsEnter
    \/ ShiftOutputsLoop
    \/ OutputLoop
    \/ RowsLoop
    \/ RowLoop
    \/ ComputeStatement
    \/ StoreSampleStatement
    \/ IncrementStatement
    \/ ClearLoop
    \/ ResetStateStatement
    \/ DumpRowsLoop

NextStatements ==
    \/ EnterNext
    \/ EnterReset
    \/ EnterBufferDump
    \/ Statement

SpecStatements == InitStatements /\ [][NextStatements]_vars

\* the loop bodies a call on the instance s may run: the history lengths and
\* the coefficient counts, the state dimension, the capacity
LoopBound(name, s) ==
    CASE name = "next" /\ s.kind = "TransferFunctionSystem" ->
             Len(s.derived.uHist_) + Len(s.derived.b_)
                 + Len(s.derived.a_) + Len(s.derived.yHist_)
      [] name = "next" /\ s.kind = "StateSpaceSystem" ->
             s.derived.n_ + s.derived.n_ + s.derived.n_ * s.derived.n_
      [] name \in {"reset", "bufferDump"} -> s.base.bufferSize_
      [] OTHER -> 0

\* C34: every call of next, reset and bufferDump terminates: while it is in
\* progress there is a statement for it to run, it has run no more loop
\* bodies than the history lengths, the state dimension and the capacity
\* allow, the index of a downward size_t loop is inside its history, and
\* the call returns what the operation returns.
C34_CallsTerminate ==
    /\ ret.iterations <= LoopBound(op, prev)
    /\ ~Returned => ENABLED Statement
    /\ ret.pc = "shiftU_loop" => ret.i < Len(sys.derived.uHist_)
    /\ ret.pc = "shiftY_loop" => ret.i < Len(sys.derived.yHist_)
    /\ (Returned /\ op = "next") => [y |-> ret.yk, s |-> sys] \in next(prev, arg)
    /\ (Returned /\ op = "reset") => sys = reset(prev)
    /\ (Returned /\ op = "bufferDump") =>
          /\ sys = prev
          /\ ret.rows = bufferDump(prev, arg).rows

\* a next() returned on the transfer function with two past outputs, after
\* six loop bodies: one shift of each history, two products of the
\* numerator and two of the denominator
C34_Witness ==
    /\ Returned
    /\ op = "next"
    /\ sys.kind = "TransferFunctionSystem"
    /\ Len(sys.derived.yHist_) = 2
    /\ ret.iterations = 6
    /\ Len(hist) = 2
    /\ sys.derived.yHist_[1] = ret.yk
    /\ sys.derived.yHist_[2] = hist[1][2]
============================================================================
